---- MODULE Spec2Model ----
(***************************************************************************)
(* Model of the Relay classic printer (RelayQLPrinter) and of the         *)
(* graphql-tag normalizer of relay-compiler-language-typescript.          *)
(*                                                                         *)
(* A print() call is one step: a parsed definition, the printer options   *)
(* and the printer's variable table are the state after construction;     *)
(* print() turns the definition into a tree of printed nodes or raises.   *)
(* A createClassicNode call is a sequence of steps: one per visitor call  *)
(* of createClassicAST, in the order visit() enters the nodes, then the   *)
(* return of the rewritten tree, then the fragment substitutions.         *)
(* Printed code is modelled by its structure: object literals are         *)
(* records, array literals are sequences, metadata objects are sequences  *)
(* of <<key, literal>> property assignments in emission order.            *)
(***************************************************************************)
EXTENDS Naturals, Integers, Sequences, FiniteSets, TLC

VARIABLES
  definition,        \* the parsed definition handed to print()
  options,           \* PrinterOptions: inputArgumentName ("" for null), snakeCase
  variableNames,     \* the printer's table of substitution variable names
  enableValidation,  \* print()'s enableValidation parameter
  pc,                \* "ready" before print() is called, "done" after it returned or raised
  result,            \* what print() returned or raised, and the printField calls it made
  document,          \* the graphql definition handed to createClassicAST
  scope,             \* ScopeAnalyzer: the binding kind of each name at the tagged literal
  phase,             \* where the classic-node assembler stands
  visiting,          \* visit(): the paths of the nodes whose visitor is still to be called
  classicAST,        \* the definition with the visitors' edits
  fragmentID,        \* createClassicAST: let fragmentID
  fragments,         \* createClassicAST: const fragments, in key insertion order
  variables,         \* createClassicAST: const variables, in key insertion order
  argumentDefinitions, \* createClassicAST: let argumentDefinitions
  failure,           \* the error the assembler raised, "" if none
  substitutions,     \* what createSubstitutionsForFragmentSpreads returned
  transformedAST,    \* create{Fragment,Operation}ConcreteNode: const transformedAST
  graphqlDefinition, \* the graphql definition handed to createModernNode
  modernOpts,        \* createModernNode: the options (opts) it is given
  modernNode,        \* what createModernNode returned or raised
  earlier            \* history: <<input, outcome>> of the calls that ended before this one

printerVars == <<definition, options, variableNames, enableValidation, pc, result>>

assemblerVars == <<document, scope, phase, visiting, classicAST, fragmentID, fragments,
                   variables, argumentDefinitions, failure, substitutions, transformedAST>>

modernVars == <<graphqlDefinition, modernOpts, modernNode>>

vars == <<printerVars, assemblerVars, modernVars, earlier>>

(***************************************************************************)
(* Bounds of the model.                                                    *)
(***************************************************************************)
MaxRootFields == 2      \* top-level fields of an operation
MaxWrap == 2            \* inline fragments wrapped around a selection
MaxArgs == 2            \* arguments supplied to one field
MaxSiblings == 2        \* selections side by side in a connection's selection set
MaxCalls == 3           \* calls made one after another
MaxSpreads == 3         \* selections side by side in a definition given to createClassicAST

(***************************************************************************)
(* Small sequence helpers.                                                 *)
(***************************************************************************)
Range(s) == {s[i] : i \in 1..Len(s)}

Contains(s, x) == \E i \in 1..Len(s) : s[i] = x

\* `obj[key] = true` on a JS object used as an ordered set of keys.
AddKey(s, x) == IF Contains(s, x) THEN s ELSE Append(s, x)

\* `delete obj[key]`
DeleteKey(s, x) == SelectSeq(s, LAMBDA y : y # x)

RECURSIVE Concat(_)
Concat(ss) == IF ss = <<>> THEN <<>> ELSE Head(ss) \o Concat(Tail(ss))

RECURSIVE JoinStr(_)
JoinStr(cs) == IF cs = <<>> THEN "" ELSE Head(cs) \o JoinStr(Tail(cs))

(***************************************************************************)
(* Well-known field names: FIELDS = formatFields({...}).                   *)
(* A name is spelled as a sequence of characters so that the snake-case   *)
(* replacement works on its letters.                                       *)
(***************************************************************************)
ID == "id"

Spelling ==
  [ typename             |-> <<"_","_","t","y","p","e","n","a","m","e">>,
    clientMutationId     |-> <<"c","l","i","e","n","t","M","u","t","a","t","i","o","n","I","d">>,
    clientSubscriptionId |-> <<"c","l","i","e","n","t","S","u","b","s","c","r","i","p","t","i","o","n","I","d">>,
    cursor               |-> <<"c","u","r","s","o","r">>,
    edges                |-> <<"e","d","g","e","s">>,
    hasNextPage          |-> <<"h","a","s","N","e","x","t","P","a","g","e">>,
    hasPreviousPage      |-> <<"h","a","s","P","r","e","v","i","o","u","s","P","a","g","e">>,
    node                 |-> <<"n","o","d","e">>,
    pageInfo             |-> <<"p","a","g","e","I","n","f","o">> ]

IsUpper(c) == c \in {"M", "I", "S", "N", "P"}

toLowerCase(c) ==
  CASE c = "M" -> "m"
    [] c = "I" -> "i"
    [] c = "S" -> "s"
    [] c = "N" -> "n"
    [] c = "P" -> "p"
    [] OTHER -> c

\* the replacement without the g flag: the first upper-case letter only
RECURSIVE snakeReplace_firstOnly(_)
snakeReplace_firstOnly(cs) ==
  IF cs = <<>> THEN <<>>
  ELSE IF IsUpper(Head(cs)) THEN <<"_", toLowerCase(Head(cs))>> \o Tail(cs)
       ELSE <<Head(cs)>> \o snakeReplace_firstOnly(Tail(cs))

\* name.replace(/[A-Z]/g, letter => '_' + letter.toLowerCase())
RECURSIVE snakeReplace(_)
snakeReplace(cs) ==
  IF cs = <<>> THEN <<>>
  ELSE (IF IsUpper(Head(cs)) THEN <<"_", toLowerCase(Head(cs))>> ELSE <<Head(cs)>>)
       \o snakeReplace(Tail(cs))

formatFields(snakeCase, fields) ==
  [k \in DOMAIN fields |->
     IF snakeCase THEN JoinStr(snakeReplace(fields[k])) ELSE JoinStr(fields[k])]

FIELDS == formatFields(options.snakeCase, Spelling)

INPUT_ARGUMENT_NAME ==
  IF options.inputArgumentName = "" THEN "input" ELSE options.inputArgumentName

(***************************************************************************)
(* The schema the definitions are compiled against (Schema Facade).       *)
(* A type handle answers the questions the printer asks of RelayQLType;   *)
(* a field definition gives the field's type, whether that type is a      *)
(* list, and the names of the arguments the schema declares, in order.    *)
(***************************************************************************)
FD(type, list, declared) == [type |-> type, list |-> list, declared |-> declared]

TypeRec(abstract, mayNode, alwaysNode, role, fields) ==
  [abstract |-> abstract, mayNode |-> mayNode, alwaysNode |-> alwaysNode,
   role |-> role, fields |-> fields]

NoFields == [n \in {} |-> FD("", FALSE, <<>>)]

PagingArgs == <<"first", "last", "before", "after", "find">>

\* The type of each field, by the name of the type that declares it.
RootMutationFields ==
  [like |-> "LikePayload", likeTwo |-> "LikePayload", likeNone |-> "LikePayload",
   likeData |-> "LikePayload", likeAny |-> "LikeResult", likeUser |-> "User",
   snakeLike |-> "SnakePayload"]

FieldType ==
  [Query |-> [node |-> "Node", me |-> "User", actor |-> "Actor", users |-> "User"],
   Mutation |-> RootMutationFields,
   Subscription |-> RootMutationFields,
   Node |-> [id |-> "ID"],
   User |-> [id |-> "ID", name |-> "String", friends |-> "UserConnection",
             allFriends |-> "UserConnection", pals |-> "BareConnection",
             node |-> "Node", actor |-> "Actor"],
   Actor |-> [name |-> "String"],
   UserConnection |-> [edges |-> "UserEdge", pageInfo |-> "PageInfo",
                       nodes |-> "User", count |-> "Int"],
   BareConnection |-> [edges |-> "UserEdge"],
   UserEdge |-> [cursor |-> "String", node |-> "User", others |-> "User"],
   PageInfo |-> [hasNextPage |-> "Boolean", hasPreviousPage |-> "Boolean"],
   LikePayload |-> [clientMutationId |-> "String", clientSubscriptionId |-> "String",
                    user |-> "User"],
   SnakeUser |-> [name |-> "String", friends |-> "SnakeConnection"],
   SnakeConnection |-> [edges |-> "SnakeEdge", page_info |-> "SnakePageInfo"],
   SnakeEdge |-> [cursor |-> "String", node |-> "SnakeUser"],
   SnakePageInfo |-> [has_next_page |-> "Boolean", has_previous_page |-> "Boolean"],
   SnakePayload |-> [client_mutation_id |-> "String",
                     client_subscription_id |-> "String", user |-> "SnakeUser"]]

\* The types that declare no field: the scalars and the union LikeResult.
ScalarTypes == {"ID", "String", "Int", "Boolean"}
FieldlessTypes == ScalarTypes \cup {"LikeResult"}
TypeNames == DOMAIN FieldType \cup FieldlessTypes

\* The fields whose type is a list.
ListFields ==
  {<<"Query", "users">>, <<"UserConnection", "edges">>, <<"UserConnection", "nodes">>,
   <<"BareConnection", "edges">>, <<"UserEdge", "others">>, <<"SnakeConnection", "edges">>}

\* The arguments the schema declares for a field, in order.
DeclaredArguments(type, name) ==
  CASE type \in {"Mutation", "Subscription"} /\ name = "likeTwo" -> <<"input", "extra">>
    [] type \in {"Mutation", "Subscription"} /\ name = "likeNone" -> <<>>
    [] type \in {"Mutation", "Subscription"} /\ name = "likeData" -> <<"data">>
    [] type \in {"Mutation", "Subscription"}
         /\ name \notin {"likeTwo", "likeNone", "likeData"} -> <<"input">>
    [] type \in {"User", "SnakeUser"} /\ name \in {"friends", "pals"} -> PagingArgs
    [] type = "User" /\ name = "allFriends" -> <<"find">>
    [] type \in {"Query", "User"} /\ name = "node" -> <<"id">>
    [] type = "Query" /\ name = "users" -> <<"ids">>
    [] OTHER -> <<>>

AbstractTypes == {"Node", "Actor", "LikeResult"}
MayBeNode == {"Node", "User", "Actor"}
AlwaysNode == {"Node", "User"}

RoleOf(type) ==
  CASE type = "Query" -> "query"
    [] type \in {"UserConnection", "BareConnection", "SnakeConnection"} -> "connection"
    [] type \in {"UserEdge", "SnakeEdge"} -> "edge"
    [] type \in {"PageInfo", "SnakePageInfo"} -> "pageInfo"
    [] type \in ScalarTypes -> "scalar"
    [] OTHER -> "object"

FieldDefinition(type, name) ==
  FD(FieldType[type][name], <<type, name>> \in ListFields, DeclaredArguments(type, name))

FieldsOf(type) ==
  IF type \in FieldlessTypes THEN NoFields
  ELSE [name \in DOMAIN FieldType[type] |-> FieldDefinition(type, name)]

Schema ==
  [type \in TypeNames |->
     TypeRec(type \in AbstractTypes, type \in MayBeNode, type \in AlwaysNode,
             RoleOf(type), FieldsOf(type))]

\* The type of a declared argument, by argument name.
ArgTypeOf(name) ==
  CASE name \in {"first", "last"} -> "Int"
    [] name \in {"before", "after"} -> "String"
    [] name \in {"id", "find", "ids"} -> "ID"
    [] name \in {"input", "data"} -> "LikeInput"
    [] OTHER -> "String"

\* RelayQLType
hasField(type, name) == type \notin FieldlessTypes /\ name \in DOMAIN FieldType[type]
isAbstract(type) == type \in AbstractTypes
isConnection(type) == RoleOf(type) = "connection"
isConnectionEdge(type) == RoleOf(type) = "edge"
isConnectionPageInfo(type) == RoleOf(type) = "pageInfo"
isQueryType(type) == RoleOf(type) = "query"
canHaveSubselections(type) == type \notin ScalarTypes
mayImplement(type, iface) == iface = "Node" /\ type \in MayBeNode
alwaysImplements(type, iface) == iface = "Node" /\ type \in AlwaysNode

\* The definition of a field of a type; __typename is defined on every type.
getFieldDefinition(type, name) ==
  IF name = "__typename" THEN FD("String", FALSE, <<>>) ELSE FieldDefinition(type, name)

(***************************************************************************)
(* The parsed definition (RelayQLAST wrappers).  A selection is a Field,  *)
(* an InlineFragment (carrying its fragment) or a FragmentSpread; all are *)
(* records of one shape.  A field knows its schema definition.            *)
(***************************************************************************)
\* An argument: a variable reference ($value), a scalar literal, or a list literal
\* of strings (items).
Arg(name, isVar, value) ==
  [name |-> name, isVar |-> isVar, value |-> value, isList |-> FALSE, items |-> <<>>]

ListArg(name, items) ==
  [name |-> name, isVar |-> FALSE, value |-> "", isList |-> TRUE, items |-> items]

Directive(name, args) == [name |-> name, args |-> args]

Selection(kind, name, alias, fd, args, directives, selections, pattern) ==
  [kind |-> kind, name |-> name, alias |-> alias, type |-> fd.type, list |-> fd.list,
   declared |-> fd.declared, args |-> args, directives |-> directives,
   selections |-> selections, pattern |-> pattern]

RelayQLField(parentType, name, args, directives, selections) ==
  Selection("Field", name, "", getFieldDefinition(parentType, name), args, directives,
            selections, FALSE)

RelayQLFragment(name, type, directives, selections) ==
  Selection("Fragment", name, "", FD(type, FALSE, <<>>), <<>>, directives, selections, FALSE)

RelayQLInlineFragment(type, directives, selections) ==
  Selection("InlineFragment", "", "", FD(type, FALSE, <<>>), <<>>, directives, selections,
            FALSE)

RelayQLFragmentSpread(name, directives) ==
  Selection("FragmentSpread", name, "", FD("", FALSE, <<>>), <<>>, directives, <<>>, FALSE)

\* RelayQLType.generateField(fieldName): a field with no arguments and no selections.
generateField(parentType, fieldName) == RelayQLField(parentType, fieldName, <<>>, <<>>, <<>>)

\* RelayQLType.generateIdFragment(): `... on Node { id }`, the id being a requisite field.
generateIdFragment == RelayQLFragment("IdFragment", "Node", <<>>, <<>>)

\* An operation: its selections are its top-level fields.
Operation(kind, name, rootType, directives, fields) ==
  Selection(kind, name, "", FD(rootType, FALSE, <<>>), <<>>, directives, fields, FALSE)

hasDirective(node, name) == \E i \in 1..Len(node.directives) : node.directives[i].name = name

hasDeclaredArgument(field, name) == Contains(field.declared, name)

hasArgument(field, name) == \E i \in 1..Len(field.args) : field.args[i].name = name

NoArg == Arg("", FALSE, "")

findArgument(field, name) ==
  IF hasArgument(field, name)
  THEN field.args[CHOOSE i \in 1..Len(field.args) :
                    /\ field.args[i].name = name
                    /\ \A j \in 1..(i - 1) : field.args[j].name # name]
  ELSE NoArg

(***************************************************************************)
(* Printed code.                                                           *)
(***************************************************************************)
NULL == [wrap |-> "null", items |-> <<>>]

Printed(kind, name, fieldName, alias, type, calls, children, directives, metadata) ==
  [kind |-> kind, name |-> name, fieldName |-> fieldName, alias |-> alias, type |-> type,
   calls |-> calls, children |-> children, directives |-> directives,
   metadata |-> metadata, createFragment |-> FALSE, variables |-> <<>>]

NoNode == Printed("none", "", "", "", "", <<>>, NULL, <<>>, <<>>)

\* The outcome of a printing procedure: a value, or a raised RelayTransformError
\* (err, and the node whose location it reports).  log lists the printField calls
\* made so far, in order.
Return(val, log) == [err |-> "", at |-> "", val |-> val, log |-> log]

Throw(err, at, log) == [err |-> err, at |-> at, val |-> NoNode, log |-> log]

Raised(r) == r.err # ""

(***************************************************************************)
(* Structural validation.  A validator yields the name of the error it    *)
(* raises, or "" when it returns normally.                                 *)
(***************************************************************************)
shouldGenerateIdFragment(node) ==
  /\ mayImplement(node.type, "Node")
  /\ ~ \E i \in 1..Len(node.selections) :
         /\ node.selections[i].kind = "InlineFragment"
         /\ node.selections[i].type = "Node"

validateField_anyParent(field, parentType) ==
  IF field.name = "node" /\ Len(field.declared) = 1 /\ field.declared[1] = ID
  THEN "MisplacedNodeField"
  ELSE ""

validateField(field, parentType) ==
  IF /\ field.name = "node"
     /\ ~ isQueryType(parentType)
     /\ Len(field.declared) = 1
     /\ field.declared[1] = ID
  THEN "MisplacedNodeField"
  ELSE ""

forEachRecursiveField_direct(selections) ==
  SelectSeq(selections, LAMBDA selection : selection.kind = "Field")

\* The fields the callback is applied to, in call order: the fields of the
\* selection set and of its inline fragments; spreads are ignored.
RECURSIVE forEachRecursiveField(_)
forEachRecursiveField(selections) ==
  IF selections = <<>> THEN <<>>
  ELSE LET selection == Head(selections) IN
       (CASE selection.kind = "Field" -> <<selection>>
          [] selection.kind = "InlineFragment" -> forEachRecursiveField(selection.selections)
          [] OTHER -> <<>>)
       \o forEachRecursiveField(Tail(selections))

\* !a || !b || (a.isVariable() && b.isVariable())
PairCondition_either(field, a, b) ==
  \/ ~ hasArgument(field, a)
  \/ ~ hasArgument(field, b)
  \/ (findArgument(field, a).isVar \/ findArgument(field, b).isVar)

PairCondition(field, a, b) ==
  \/ ~ hasArgument(field, a)
  \/ ~ hasArgument(field, b)
  \/ (findArgument(field, a).isVar /\ findArgument(field, b).isVar)

subfieldCheck_pagingOnly(field, subfield, connectionNodeType) ==
  IF /\ subfield.name \in {FIELDS.edges, FIELDS.pageInfo}
     /\ ~ field.pattern
     /\ ~ hasArgument(field, "find")
     /\ ~ hasArgument(field, "first")
     /\ ~ hasArgument(field, "last")
  THEN "MissingPaginationArgument"
  ELSE ""

\* The callback validateConnectionField applies to each recursive subfield.
subfieldCheck(field, subfield, connectionNodeType) ==
  IF subfield.name = FIELDS.edges \/ subfield.name = FIELDS.pageInfo
  THEN LET hasCondition ==
             \/ field.pattern
             \/ hasArgument(field, "find")
             \/ hasArgument(field, "first")
             \/ hasArgument(field, "last")
       IN IF ~ hasCondition THEN "MissingPaginationArgument" ELSE ""
  ELSE LET isNodesLikeField == subfield.list /\ subfield.type = connectionNodeType
       IN IF isNodesLikeField THEN "UseEdgesNodeInstead" ELSE ""

RECURSIVE firstSubfieldError(_, _, _)
firstSubfieldError(field, subfields, connectionNodeType) ==
  IF subfields = <<>> THEN ""
  ELSE LET e == subfieldCheck(field, Head(subfields), connectionNodeType)
       IN IF e # "" THEN e
          ELSE firstSubfieldError(field, Tail(subfields), connectionNodeType)

validateConnectionField(field) ==
  IF ~ PairCondition(field, "first", "last") THEN "ConflictingPaginationArguments"
  ELSE IF ~ PairCondition(field, "first", "before") THEN "ConflictingPaginationArguments"
  ELSE IF ~ PairCondition(field, "last", "after") THEN "ConflictingPaginationArguments"
  ELSE LET connectionNodeType ==
             getFieldDefinition(getFieldDefinition(field.type, FIELDS.edges).type,
                                FIELDS.node).type
       IN firstSubfieldError(field, forEachRecursiveField(field.selections),
                             connectionNodeType)

validateMutationField_none(rootField) == ""

validateMutationField_declaredOnly(rootField) ==
  IF Len(rootField.declared) # 1 THEN "WrongMutationArgumentShape"
  ELSE IF rootField.declared[1] # INPUT_ARGUMENT_NAME THEN "WrongMutationArgumentShape"
  ELSE ""

validateMutationField(rootField) ==
  IF Len(rootField.declared) # 1 THEN "WrongMutationArgumentShape"
  ELSE IF rootField.declared[1] # INPUT_ARGUMENT_NAME THEN "WrongMutationArgumentShape"
  ELSE IF Len(rootField.args) > 1 THEN "WrongMutationArgumentShape"
  ELSE ""

(***************************************************************************)
(* RelayQLPrinter: values, arguments, directives, metadata.                *)
(***************************************************************************)
Value(kind, text) == [kind |-> kind, text |-> text]

printVariable(name) ==
  IF name \in variableNames
  THEN Value("Substitution", name)        \* <tag>.__var(name)
  ELSE Value("CallVariable", name)

printValue(value) == Value("CallValue", value)

printArgumentValue(arg) ==
  IF arg.isVar THEN printVariable(arg.value) ELSE printValue(arg.value)

printArgumentTypeForMetadata(argType) ==
  IF argType \in {"Boolean", "ID", "String"} THEN "" ELSE argType

Call(name, type, value) == [kind |-> "Call", name |-> name, type |-> type, value |-> value]

printArgument(arg) ==
  Call(arg.name, printArgumentTypeForMetadata(ArgTypeOf(arg.name)), printArgumentValue(arg))

printArguments(args) == [i \in 1..Len(args) |-> printArgument(args[i])]

printDirective(directive) ==
  [kind |-> "Directive", name |-> directive.name,
   args |-> [i \in 1..Len(directive.args) |->
               [name |-> directive.args[i].name,
                value |-> printArgumentValue(directive.args[i])]]]

printDirectives_keepRelay(directives) ==
  [i \in 1..Len(directives) |-> printDirective(directives[i])]

printDirectives(directives) ==
  LET kept == SelectSeq(directives, LAMBDA d : d.name # "relay")
  IN [i \in 1..Len(kept) |-> printDirective(kept[i])]

hasRelayDirective(node) == hasDirective(node, "relay")

findRelayDirective(node) ==
  node.directives[CHOOSE i \in 1..Len(node.directives) :
                    /\ node.directives[i].name = "relay"
                    /\ \A j \in 1..(i - 1) : node.directives[j].name # "relay"]

printRelayDirectiveMetadata_directiveLast(node, maybeMetadata, log) ==
  LET relayArgs == IF hasRelayDirective(node) THEN findRelayDirective(node).args ELSE <<>>
      copied == SelectSeq(relayArgs, LAMBDA a : a.name # "variables")
      properties == [i \in 1..Len(copied) |-> <<copied[i].name, copied[i].value>>]
      bad == {i \in 1..Len(relayArgs) :
                \/ relayArgs[i].isVar
                \/ (relayArgs[i].name # "variables" /\ relayArgs[i].isList)}
      first == CHOOSE i \in bad : \A j \in bad : i <= j
  IN IF bad # {}
     THEN IF relayArgs[first].isVar
          THEN Throw("RelayDirectiveVariableArgument", node.name, log)
          ELSE Throw("InvalidLiteralValue", node.name, log)
     ELSE Return(maybeMetadata \o properties, log)

\* The property assignments of the metadata object literal, in emission order;
\* an argument bound to a variable raises.
printRelayDirectiveMetadata(node, maybeMetadata, log) ==
  LET relayArgs == IF hasRelayDirective(node) THEN findRelayDirective(node).args ELSE <<>>
      copied == SelectSeq(relayArgs, LAMBDA a : a.name # "variables")
      properties == [i \in 1..Len(copied) |-> <<copied[i].name, copied[i].value>>]
      \* createLiteral accepts strings, numbers, booleans and null only
      bad == {i \in 1..Len(relayArgs) :
                \/ relayArgs[i].isVar
                \/ (relayArgs[i].name # "variables" /\ relayArgs[i].isList)}
      first == CHOOSE i \in bad : \A j \in bad : i <= j
  IN IF bad # {}
     THEN IF relayArgs[first].isVar
          THEN Throw("RelayDirectiveVariableArgument", node.name, log)
          ELSE Throw("InvalidLiteralValue", node.name, log)
     ELSE Return(properties \o maybeMetadata, log)

\* The value the evaluated object literal yields for a key: the last assignment.
MetadataValue(metadata, key) ==
  LET idx == {i \in 1..Len(metadata) : metadata[i][1] = key}
  IN IF idx = {} THEN "" ELSE metadata[CHOOSE i \in idx : \A j \in idx : j <= i][2]

boolLiteral(b) == IF b THEN "true" ELSE "false"

printFragmentReference(fragmentReference) ==
  Printed("FragmentReference", fragmentReference.name, "", "", "", <<>>, NULL, <<>>, <<>>)

shallowFlatten(items) == [wrap |-> "flatten", items |-> items]

ArrayLiteral(items) == [wrap |-> "array", items |-> items]

(***************************************************************************)
(* RelayQLPrinter: the recursive descent.                                  *)
(***************************************************************************)
\* metadata of a printed field, in the order printField assigns the keys
fieldMetadata_generatedIfRequisite(field, requisiteSiblings, generatedSiblings) ==
  LET fieldType == field.type
      isValidatedConnection ==
        /\ isConnection(fieldType)
        /\ (hasDeclaredArgument(field, "first") \/ hasDeclaredArgument(field, "last"))
  IN   (IF canHaveSubselections(fieldType) THEN <<<<"canHaveSubselections", "true">>>> ELSE <<>>)
    \o (IF alwaysImplements(fieldType, "Node")
        THEN <<<<"inferredRootCallName", "node">>, <<"inferredPrimaryKey", ID>>>> ELSE <<>>)
    \o (IF isValidatedConnection THEN <<<<"isConnection", "true">>>> ELSE <<>>)
    \o (IF isValidatedConnection /\ hasDeclaredArgument(field, "find")
        THEN <<<<"isFindable", "true">>>> ELSE <<>>)
    \o (IF isAbstract(fieldType) THEN <<<<"isAbstract", "true">>>> ELSE <<>>)
    \o (IF field.list THEN <<<<"isPlural", "true">>>> ELSE <<>>)
    \o (IF Contains(requisiteSiblings, field.name) THEN <<<<"isGenerated", "true">>>> ELSE <<>>)
    \o (IF Contains(requisiteSiblings, field.name) THEN <<<<"isRequisite", "true">>>> ELSE <<>>)

fieldMetadata(field, requisiteSiblings, generatedSiblings) ==
  LET fieldType == field.type
      isValidatedConnection ==
        /\ isConnection(fieldType)
        /\ (hasDeclaredArgument(field, "first") \/ hasDeclaredArgument(field, "last"))
  IN   (IF canHaveSubselections(fieldType) THEN <<<<"canHaveSubselections", "true">>>> ELSE <<>>)
    \o (IF alwaysImplements(fieldType, "Node")
        THEN <<<<"inferredRootCallName", "node">>, <<"inferredPrimaryKey", ID>>>> ELSE <<>>)
    \o (IF isValidatedConnection THEN <<<<"isConnection", "true">>>> ELSE <<>>)
    \o (IF isValidatedConnection /\ hasDeclaredArgument(field, "find")
        THEN <<<<"isFindable", "true">>>> ELSE <<>>)
    \o (IF isAbstract(fieldType) THEN <<<<"isAbstract", "true">>>> ELSE <<>>)
    \o (IF field.list THEN <<<<"isPlural", "true">>>> ELSE <<>>)
    \o (IF Contains(generatedSiblings, field.name) THEN <<<<"isGenerated", "true">>>> ELSE <<>>)
    \o (IF Contains(requisiteSiblings, field.name) THEN <<<<"isRequisite", "true">>>> ELSE <<>>)

\* the requisite fields printField computes for the field's own selection set
fieldRequisiteFields(field) ==
  LET fieldType == field.type
      r1 == IF hasField(fieldType, ID) THEN <<ID>> ELSE <<>>
      r2 == IF isConnection(fieldType) THEN r1
            ELSE IF isConnectionPageInfo(fieldType)
                 THEN AddKey(AddKey(r1, FIELDS.hasNextPage), FIELDS.hasPreviousPage)
            ELSE IF isConnectionEdge(fieldType)
                 THEN AddKey(AddKey(r1, FIELDS.cursor), FIELDS.node)
            ELSE r1
  IN IF isAbstract(fieldType) THEN AddKey(r2, FIELDS.typename) ELSE r2

\* the `... on Node { id }` fragment printField and printFragment pass along
idFragments_never(node) == <<>>

idFragments(node) ==
  IF ~ hasField(node.type, ID) /\ shouldGenerateIdFragment(node)
  THEN <<generateIdFragment>> ELSE <<>>

LogEntry(field, parentType, isGeneratedQuery) ==
  [field |-> field, parentType |-> parentType, gen |-> isGeneratedQuery]

\* the requisite fields printFragment computes for the fragment's selection set
fragmentRequisiteFields_noTypename(fragment) ==
  IF hasField(fragment.type, ID) THEN <<ID>> ELSE <<>>

fragmentRequisiteFields(fragment) ==
  LET fragmentType == fragment.type
      r1 == IF hasField(fragmentType, ID) THEN <<ID>> ELSE <<>>
  IN IF isAbstract(fragmentType) THEN AddKey(r1, FIELDS.typename) ELSE r1

\* printFields: a connection whose `edges` are requested also needs its pageInfo
connectionRequisiteFields_never(fields, parentType, requisiteFields) == requisiteFields

connectionRequisiteFields(fields, parentType, requisiteFields) ==
  IF /\ isConnection(parentType)
     /\ hasField(parentType, FIELDS.pageInfo)
     /\ \E i \in 1..Len(fields) : fields[i].name = FIELDS.edges
  THEN AddKey(requisiteFields, FIELDS.pageInfo)
  ELSE requisiteFields

RECURSIVE printSelections(_, _, _, _, _)
RECURSIVE scanSelections(_, _)
RECURSIVE printExtraFragments(_, _)
RECURSIVE printFragment(_, _)
RECURSIVE printFields(_, _, _, _, _)
RECURSIVE printRequestedFields(_, _, _, _, _, _)
RECURSIVE printGeneratedFields(_, _, _, _, _, _)
RECURSIVE printField(_, _, _, _, _, _)

\* printedFragments.push(printed), or the exception the printing raised
pushFragment(acc, r) ==
  IF Raised(r)
  THEN [acc EXCEPT !.err = r.err, !.at = r.at, !.log = r.log]
  ELSE [acc EXCEPT !.printedFragments = Append(@, r.val), !.log = r.log]

\* printedFields.push(printed), or the exception the printing raised
pushField(acc, r) ==
  IF Raised(r)
  THEN [acc EXCEPT !.err = r.err, !.at = r.at, !.log = r.log]
  ELSE [acc EXCEPT !.val = Append(@, r.val), !.log = r.log]

\* One round of the forEach of printSelections: a field is collected, a
\* fragment is printed on the spot.
scanSelection(selection, acc) ==
  CASE selection.kind = "FragmentSpread" ->
         IF Len(selection.directives) # 0
         THEN [acc EXCEPT !.err = "SpreadDirectivesNotSupported", !.at = selection.name]
         ELSE [acc EXCEPT
                 !.printedFragments = Append(@, printFragmentReference(selection)),
                 !.didPrintFragmentReference = TRUE]
    [] selection.kind = "InlineFragment" ->
         pushFragment(acc, printFragment(selection, acc.log))
    [] selection.kind = "Field" ->
         [acc EXCEPT !.fields = Append(@, selection)]
    [] OTHER ->
         [acc EXCEPT !.err = "UnsupportedSelection", !.at = selection.name]

\* acc = [fields, printedFragments, didPrintFragmentReference, err, at, log]
scanSelections(selections, acc) ==
  IF selections = <<>> \/ acc.err # "" THEN acc
  ELSE scanSelections(Tail(selections), scanSelection(Head(selections), acc))

printExtraFragments(extraFragments, acc) ==
  IF extraFragments = <<>> \/ acc.err # "" THEN acc
  ELSE printExtraFragments(Tail(extraFragments),
         pushFragment(acc, printFragment(Head(extraFragments), acc.log)))

printSelectionsArray_deepFlatten(scanned, printedFields) ==
  LET selections == printedFields.val \o scanned.printedFragments
  IN IF Raised(printedFields)
     THEN Throw(printedFields.err, printedFields.at, printedFields.log)
     ELSE IF Len(selections) # 0
          THEN Return(IF \/ scanned.didPrintFragmentReference
                         \/ \E i \in 1..Len(selections) :
                              selections[i].children.wrap = "flatten"
                      THEN shallowFlatten(selections)
                      ELSE ArrayLiteral(selections),
                      printedFields.log)
          ELSE Return(NULL, printedFields.log)

\* printSelections from `const selections = [...printedFields, ...printedFragments]`
printSelectionsArray(scanned, printedFields) ==
  LET selections == printedFields.val \o scanned.printedFragments
  IN IF Raised(printedFields)
     THEN Throw(printedFields.err, printedFields.at, printedFields.log)
     ELSE IF Len(selections) # 0
          THEN Return(IF scanned.didPrintFragmentReference
                      THEN shallowFlatten(selections)
                      ELSE ArrayLiteral(selections),
                      printedFields.log)
          ELSE Return(NULL, printedFields.log)

\* printSelections from `const printedFields = this.printFields(...)`
printSelectionsFields(parent, requisiteFields, isGeneratedQuery, scanned) ==
  IF scanned.err # "" THEN Throw(scanned.err, scanned.at, scanned.log)
  ELSE printSelectionsArray(scanned,
         printFields(scanned.fields, parent, requisiteFields, isGeneratedQuery,
                     scanned.log))

printSelections(parent, requisiteFields, extraFragments, isGeneratedQuery, log) ==
  printSelectionsFields(parent, requisiteFields, isGeneratedQuery,
    printExtraFragments(extraFragments,
      scanSelections(parent.selections,
        [fields |-> <<>>, printedFragments |-> <<>>,
         didPrintFragmentReference |-> FALSE, err |-> "", at |-> "", log |-> log])))

\* fields.forEach: delete the field's name from generatedFields, print the field
printRequestedFields(fields, parentType, requisiteFields, generatedFields, isGeneratedQuery, acc) ==
  IF fields = <<>> \/ acc.err # "" THEN [acc EXCEPT !.generatedFields = generatedFields]
  ELSE printRequestedFields(Tail(fields), parentType, requisiteFields,
         DeleteKey(generatedFields, Head(fields).name), isGeneratedQuery,
         pushField(acc,
           printField(Head(fields), parentType, requisiteFields,
                      DeleteKey(generatedFields, Head(fields).name),
                      isGeneratedQuery, acc.log)))

\* Object.keys(generatedFields).forEach: generate the field, print it
printGeneratedFields(fieldNames, parentType, requisiteFields, generatedFields, isGeneratedQuery, acc) ==
  IF fieldNames = <<>> \/ acc.err # "" THEN acc
  ELSE printGeneratedFields(Tail(fieldNames), parentType, requisiteFields,
         generatedFields, isGeneratedQuery,
         IF ~ (Head(fieldNames) = "__typename" \/ hasField(parentType, Head(fieldNames)))
         THEN [acc EXCEPT !.err = "UnknownField", !.at = Head(fieldNames)]
         ELSE pushField(acc,
                printField(generateField(parentType, Head(fieldNames)), parentType,
                           requisiteFields, generatedFields, isGeneratedQuery, acc.log)))

\* printFields from `Object.keys(generatedFields).forEach`
printFieldsGenerated(parentType, requisiteFields, isGeneratedQuery, requested) ==
  LET generated == printGeneratedFields(requested.generatedFields, parentType,
                     requisiteFields, requested.generatedFields, isGeneratedQuery,
                     requested)
  IN [err |-> generated.err, at |-> generated.at, val |-> generated.val,
      log |-> generated.log]

\* printFields from `const generatedFields = { ...requisiteFields }`
printFieldsRequested(fields, parentType, requisiteFields, isGeneratedQuery, log) ==
  printFieldsGenerated(parentType, requisiteFields, isGeneratedQuery,
    printRequestedFields(fields, parentType, requisiteFields, requisiteFields,
      isGeneratedQuery,
      [err |-> "", at |-> "", val |-> <<>>, log |-> log,
       generatedFields |-> requisiteFields]))

printFields(fields, parent, requisiteFields, isGeneratedQuery, log) ==
  printFieldsRequested(fields, parent.type,
    connectionRequisiteFields(fields, parent.type, requisiteFields),
    isGeneratedQuery, log)

\* printField from `return codify({...})`
printFieldCode(field, selections, printedMetadata) ==
  IF Raised(printedMetadata) THEN printedMetadata
  ELSE Return(Printed("Field", "", field.name, field.alias, field.type,
                      printArguments(field.args), selections.val,
                      printDirectives(field.directives), printedMetadata.val),
              selections.log)

\* printField from `const selections = this.printSelections(...)`
printFieldSelections(field, metadata, selections) ==
  IF Raised(selections) THEN selections
  ELSE printFieldCode(field, selections,
         printRelayDirectiveMetadata(field, metadata, selections.log))

\* printField once the validators have been consulted
printFieldValidated(field, requisiteSiblings, generatedSiblings, isGeneratedQuery, entered, fieldError, connectionError) ==
  IF fieldError # "" THEN Throw(fieldError, field.name, entered)
  ELSE IF connectionError # "" THEN Throw(connectionError, field.name, entered)
  ELSE printFieldSelections(field,
         fieldMetadata(field, requisiteSiblings, generatedSiblings),
         printSelections(field, fieldRequisiteFields(field), idFragments(field),
                         isGeneratedQuery, entered))

printField_validated(field, parentType, requisiteSiblings, generatedSiblings, isGeneratedQuery, log) ==
  printFieldValidated(field, requisiteSiblings, generatedSiblings, isGeneratedQuery,
    Append(log, LogEntry(field, parentType, isGeneratedQuery)),
    validateField(field, parentType),
    IF /\ isConnection(field.type)
       /\ (hasDeclaredArgument(field, "first") \/ hasDeclaredArgument(field, "last"))
    THEN validateConnectionField(field) ELSE "")

printField(field, parentType, requisiteSiblings, generatedSiblings, isGeneratedQuery, log) ==
  printFieldValidated(field, requisiteSiblings, generatedSiblings, isGeneratedQuery,
    Append(log, LogEntry(field, parentType, isGeneratedQuery)),
    IF ~ isGeneratedQuery THEN validateField(field, parentType) ELSE "",
    IF /\ isConnection(field.type)
       /\ (hasDeclaredArgument(field, "first") \/ hasDeclaredArgument(field, "last"))
       /\ ~ isGeneratedQuery
    THEN validateConnectionField(field) ELSE "")

\* the arguments of the fragment's @relay directive
relayArguments(fragment) ==
  IF hasRelayDirective(fragment) THEN findRelayDirective(fragment).args ELSE <<>>

\* find(relayDirective.getArguments(), arg => arg.getName() === 'variables')
hasSelectVariables(relayArgs) ==
  \E i \in 1..Len(relayArgs) : relayArgs[i].name = "variables"

selectVariables(relayArgs) ==
  relayArgs[CHOOSE i \in 1..Len(relayArgs) :
              /\ relayArgs[i].name = "variables"
              /\ \A j \in 1..(i - 1) : relayArgs[j].name # "variables"]

\* printFragment from `const fragmentCode = codify({...})`
printFragmentCode(fragment, relayArgs, selections, metadata) ==
  IF Raised(metadata) THEN metadata
  ELSE IF hasSelectVariables(relayArgs)
       THEN IF ~ selectVariables(relayArgs).isList
            THEN Throw("RelayVariablesNotArray", fragment.name, selections.log)
            ELSE Return([Printed("Fragment", fragment.name, "", "", fragment.type, <<>>,
                                 selections.val, printDirectives(fragment.directives),
                                 metadata.val)
                           EXCEPT
                           !.createFragment = TRUE,
                           !.variables =
                             [i \in 1..Len(selectVariables(relayArgs).items) |->
                                <<selectVariables(relayArgs).items[i],
                                  printVariable(selectVariables(relayArgs).items[i])>>]],
                        selections.log)
       ELSE Return(Printed("Fragment", fragment.name, "", "", fragment.type, <<>>,
                           selections.val, printDirectives(fragment.directives),
                           metadata.val),
                   selections.log)

\* printFragment from `const relayDirective = findRelayDirective(fragment)`
printFragmentSelections(fragment, relayArgs, selections) ==
  IF Raised(selections) THEN selections
  ELSE printFragmentCode(fragment, relayArgs, selections,
         printRelayDirectiveMetadata(fragment,
           << <<"isAbstract", boolLiteral(isAbstract(fragment.type))>>,
              <<"isTrackingEnabled", boolLiteral(hasSelectVariables(relayArgs))>> >>,
           selections.log))

printFragment(fragment, log) ==
  printFragmentSelections(fragment, relayArguments(fragment),
    printSelections(fragment, fragmentRequisiteFields(fragment), idFragments(fragment),
                    hasDirective(fragment, "generated"), log))

(***************************************************************************)
(* RelayQLPrinter: the definitions.                                        *)
(***************************************************************************)
\* RelayQLType.getIdentifyingFieldDefinition(): the name of the identifying
\* field of a root field's type, "" when it has none.
getIdentifyingFieldDefinition(type) ==
  IF alwaysImplements(type, "Node") /\ hasField(type, ID) THEN ID ELSE ""

\* rootFields.length !== 1 && enableValidation
tooManyRootFields_unconditional(rootFields, validate) == Len(rootFields) # 1

tooManyRootFields(rootFields, validate) == Len(rootFields) # 1 /\ validate

queryRequisiteFields(rootFieldType) ==
  LET identifyingFieldDef == getIdentifyingFieldDefinition(rootFieldType)
      r1 == IF identifyingFieldDef # "" THEN <<identifyingFieldDef>> ELSE <<>>
  IN IF isAbstract(rootFieldType) THEN AddKey(r1, FIELDS.typename) ELSE r1

\* printQuery from `const metadata = {}`
printQueryCode(query, rootField, selections) ==
  IF Raised(selections) THEN selections
  ELSE IF Len(rootField.args) > 1
       THEN Throw("InvalidRootFieldArity", query.name, selections.log)
  ELSE Return(
         Printed("Query", query.name, rootField.name, "", rootField.type,
                 IF Len(rootField.args) = 1
                 THEN <<Call(rootField.args[1].name, ArgTypeOf(rootField.args[1].name),
                             printArgumentValue(rootField.args[1]))>>
                 ELSE <<>>,
                 selections.val, printDirectives(rootField.directives),
                    (IF rootField.list THEN <<<<"isPlural", "true">>>> ELSE <<>>)
                 \o (IF isAbstract(rootField.type) THEN <<<<"isAbstract", "true">>>> ELSE <<>>)
                 \o (IF Len(rootField.args) = 1
                     THEN << <<"identifyingArgName", rootField.args[1].name>>,
                             <<"identifyingArgType", ArgTypeOf(rootField.args[1].name)>> >>
                     ELSE <<>>)),
         selections.log)

printQuery(query, validate, log) ==
  IF tooManyRootFields(query.selections, validate)
  THEN Throw("TooManyRootFields", query.name, log)
  ELSE printQueryCode(query, query.selections[1],
         printSelections(query.selections[1],
                         queryRequisiteFields(query.selections[1].type), <<>>, FALSE, log))

\* value: this.printVariable('input')
rootCallValue_configured == printVariable(INPUT_ARGUMENT_NAME)

rootCallValue == printVariable("input")

\* printMutation / printSubscription from `const metadata = {inputType: ...}`
printRootCallCode(operation, kind, rootField, selections) ==
  IF Raised(selections) THEN selections
  ELSE Return(
         Printed(kind, operation.name, "", "", rootField.type,
                 <<Call(rootField.name, "", rootCallValue)>>,
                 selections.val, printDirectives(operation.directives),
                 IF /\ hasDeclaredArgument(rootField, INPUT_ARGUMENT_NAME)
                    /\ printArgumentTypeForMetadata(ArgTypeOf(INPUT_ARGUMENT_NAME)) # ""
                 THEN <<<<"inputType",
                          printArgumentTypeForMetadata(ArgTypeOf(INPUT_ARGUMENT_NAME))>>>>
                 ELSE <<>>),
         selections.log)

\* printMutation / printSubscription from `validateMutationField(rootField)`
printRootCallValidated(operation, kind, clientIds, rootField, shapeError, log) ==
  IF shapeError # "" THEN Throw(shapeError, rootField.name, log)
  ELSE printRootCallCode(operation, kind, rootField,
         printSelections(rootField,
                         SelectSeq(clientIds, LAMBDA name : hasField(rootField.type, name)),
                         <<>>, FALSE, log))

\* printMutation and printSubscription differ in the node kind and in the
\* client id fields they require.
printRootCall(operation, kind, clientIds, validate, log) ==
  IF tooManyRootFields(operation.selections, validate)
  THEN Throw("TooManyRootFields", operation.name, log)
  ELSE printRootCallValidated(operation, kind, clientIds, operation.selections[1],
         validateMutationField(operation.selections[1]), log)

printMutation(mutation, validate, log) ==
  printRootCall(mutation, "Mutation", <<FIELDS.clientMutationId>>, validate, log)

printSubscription(subscription, validate, log) ==
  printRootCall(subscription, "Subscription",
                <<FIELDS.clientSubscriptionId, FIELDS.clientMutationId>>, validate, log)

print(def, validate) ==
  CASE def.kind = "Query" -> printQuery(def, validate, <<>>)
    [] def.kind = "Fragment" -> printFragment(def, <<>>)
    [] def.kind = "Mutation" -> printMutation(def, validate, <<>>)
    [] def.kind = "Subscription" -> printSubscription(def, validate, <<>>)
    [] OTHER -> Throw("UnsupportedDefinition", def.name, <<>>)

(***************************************************************************)
(* The classic-node assembler (createClassicNode): graphql documents.      *)
(* A node of the parsed document is a record of one shape; an argument is  *)
(* [name, value], a value is [kind, value] with the variable's name or the *)
(* literal's text as value.                                                *)
(***************************************************************************)
GraphQLNode(kind, name, arguments, directives, selections) ==
  [kind |-> kind, name |-> name, arguments |-> arguments, directives |-> directives,
   selections |-> selections]

ArgumentNode(name, kind, value) == [name |-> name, value |-> [kind |-> kind, value |-> value]]

DirectiveNode(name, arguments) == GraphQLNode("Directive", name, arguments, <<>>, <<>>)

FragmentSpreadNode(name, directives) ==
  GraphQLNode("FragmentSpread", name, <<>>, directives, <<>>)

FieldNode(name, arguments, directives, selections) ==
  GraphQLNode("Field", name, arguments, directives, selections)

InlineFragmentNode(directives, selections) ==
  GraphQLNode("InlineFragment", "", <<>>, directives, selections)

DefinitionNode(kind, name, directives, selections) ==
  GraphQLNode(kind, name, <<>>, directives, selections)

\* what stands for a node a visitor returned null for, until visit() leaves the list
Removed == GraphQLNode("null", "", <<>>, <<>>, <<>>)

\* no document: nothing was returned
NoDocument == GraphQLNode("none", "", <<>>, <<>>, <<>>)

\* no object literal has been built
NoObject == [kind |-> "none", argumentDefinitions |-> <<>>]

\* createModernNode has not been called
NoOptions == [isDevelopment |-> FALSE, isDevVariable |-> <<>>, buildCommand |-> <<>>,
              artifactDirectory |-> <<>>]

NotCreated == [state |-> "none", error |-> "", body |-> <<>>]

NoModernCall ==
  /\ graphqlDefinition = NoDocument
  /\ modernOpts = NoOptions
  /\ modernNode = NotCreated

\* A path leads from the definition to a node: steps <<key, index>>.
RECURSIVE NodeAt(_, _)
NodeAt(node, path) ==
  IF path = <<>> THEN node ELSE NodeAt(node[Head(path)[1]][Head(path)[2]], Tail(path))

RECURSIVE ReplaceAt(_, _, _)
ReplaceAt(node, path, replacement) ==
  IF path = <<>> THEN replacement
  ELSE [node EXCEPT ![Head(path)[1]][Head(path)[2]] = ReplaceAt(@, Tail(path), replacement)]

\* visit(): the edits are applied when a list is left, null edits remove the node
RECURSIVE ApplyEdits(_)
ApplyEdits(node) ==
  [node EXCEPT
     !.directives = SelectSeq(@, LAMBDA d : d.kind # "null"),
     !.selections = [i \in 1..Len(@) |-> ApplyEdits(@[i])]]

\* visit(): the Variable nodes among the values of an argument list
VariableCalls(arguments, path) ==
  Concat([i \in 1..Len(arguments) |->
            IF arguments[i].value.kind = "Variable"
            THEN <<Append(path, <<"arguments", i>>)>> ELSE <<>>])

\* visit(): each Directive node and, unless the visitor returns null for it, the
\* variables of its arguments
DirectiveCalls(directives, path) ==
  Concat([i \in 1..Len(directives) |->
            <<Append(path, <<"directives", i>>)>>
            \o (IF directives[i].name \in {"argumentDefinitions", "connection"}
                THEN <<>>
                ELSE VariableCalls(directives[i].arguments,
                                   Append(path, <<"directives", i>>)))])

\* visit(): the nodes below `node` that have a visitor, in the order visit() enters
\* them.  A spread is replaced when it is entered and the replacement has no
\* directives, so nothing below a spread is visited.
RECURSIVE VisitorCalls(_, _)
VisitorCalls(node, path) ==
  IF node.kind = "FragmentSpread" THEN <<path>>
  ELSE VariableCalls(node.arguments, path)
       \o DirectiveCalls(node.directives, path)
       \o Concat([i \in 1..Len(node.selections) |->
                    VisitorCalls(node.selections[i], Append(path, <<"selections", i>>))])

PutKey_firstWins(entries, key, value) ==
  IF \E i \in 1..Len(entries) : entries[i][1] = key
  THEN entries
  ELSE Append(entries, <<key, value>>)

\* `object[key] = value` on a JS object: an entry list in key insertion order
PutKey(entries, key, value) ==
  IF \E i \in 1..Len(entries) : entries[i][1] = key
  THEN [i \in 1..Len(entries) |-> IF entries[i][1] = key THEN <<key, value>> ELSE entries[i]]
  ELSE Append(entries, <<key, value>>)

HasOwn(entries, key) == \E i \in 1..Len(entries) : entries[i][1] = key

Get(entries, key) == entries[CHOOSE i \in 1..Len(entries) : entries[i][1] = key][2]

\* parseValue: the literal expression of a value, "" for a kind it rejects.  A
\* ListValue here is a list whose items are all of kinds parseValue accepts.
parseValue(value) ==
  IF value.kind \in {"BooleanValue", "IntValue", "FloatValue", "StringValue", "EnumValue",
                     "ListValue"}
  THEN [kind |-> "Literal", of |-> value.kind, value |-> value.value]
  ELSE [kind |-> "", of |-> value.kind, value |-> ""]

\* convertArgument: the expression bound to a fragment argument
convertArgument(argNode) ==
  IF argNode.value.kind = "Variable"
  THEN [kind |-> "CallVariable", of |-> "Variable", value |-> argNode.value.value]
  ELSE parseValue(argNode.value)

\* directive.arguments.forEach of the `arguments` case: the argument-binding object
RECURSIVE fragmentArgumentsObject(_)
fragmentArgumentsObject(arguments) ==
  IF arguments = <<>> THEN <<>>
  ELSE PutKey(fragmentArgumentsObject(SubSeq(arguments, 1, Len(arguments) - 1)),
              arguments[Len(arguments)].name,
              convertArgument(arguments[Len(arguments)]))

\* the variables the `arguments` case records, in order
argumentVariables_none(arguments, table) == table

RECURSIVE argumentVariables(_, _)
argumentVariables(arguments, table) ==
  IF arguments = <<>> THEN table
  ELSE argumentVariables(Tail(arguments),
         IF Head(arguments).value.kind = "Variable"
         THEN AddKey(table, Head(arguments).value.value) ELSE table)

\* the slot written by fragments[substitutionName] = {name, args, isMasked};
\* args is <<>> for null, <<object>> for an argument-binding object
Fragment(name, args, isMasked) == [name |-> name, args |-> args, isMasked |-> isMasked]

(***************************************************************************)
(* createClassicAST: the visitors.                                         *)
(***************************************************************************)
\* let argumentDefinitions = null: present tells an argument list from null
NoArgumentDefinitions == [present |-> FALSE, list |-> <<>>]

\* `if (argumentDefinitions)`: an argument list, even an empty one, is truthy
alreadyDefined_nonEmpty(captured) == captured.present /\ captured.list # <<>>

alreadyDefined(captured) == captured.present

\* fragmentID++
nextFragmentID_stuck(id) == 1

nextFragmentID(id) == id + 1

\* substitutionName = fragmentName + '_args' + fragmentID
argumentsSlotName_first(fragmentName, id) == fragmentName \o "_args1"

argumentsSlotName(fragmentName, id) == fragmentName \o "_args" \o ToString(id)

\* isMasked = relayArguments[0].value.value !== false
isMaskedBy_text(value) == value.value # "false"

isMaskedBy(value) == ~ (value.kind = "BooleanValue" /\ value.value = "false")

\* the error the FragmentSpread visitor throws for a directive list, "" if none
spreadError_firstOnly(directives) ==
  IF Len(directives) = 0 THEN ""
  ELSE CASE directives[1].name = "arguments" ->
              IF \E i \in 1..Len(directives[1].arguments) :
                   convertArgument(directives[1].arguments[i]).kind = ""
              THEN "UnsupportedLiteral" ELSE ""
         [] directives[1].name = "relay" ->
              IF \/ Len(directives[1].arguments) # 1
                 \/ directives[1].arguments[1].name # "mask"
              THEN "InvalidRelaySpreadDirective" ELSE ""
         [] OTHER -> "UnsupportedSpreadDirective"

spreadError(directives) ==
  IF Len(directives) = 0 THEN ""
  ELSE IF Len(directives) # 1 THEN "ConflictingSpreadDirectives"
  ELSE CASE directives[1].name = "arguments" ->
              IF \E i \in 1..Len(directives[1].arguments) :
                   convertArgument(directives[1].arguments[i]).kind = ""
              THEN "UnsupportedLiteral" ELSE ""
         [] directives[1].name = "relay" ->
              IF \/ Len(directives[1].arguments) # 1
                 \/ directives[1].arguments[1].name # "mask"
              THEN "InvalidRelaySpreadDirective" ELSE ""
         [] OTHER -> "UnsupportedSpreadDirective"

\* a visitor threw: createClassicAST returns nothing, its locals are gone
Raise(error) ==
  /\ phase' = "raised"
  /\ failure' = error
  /\ visiting' = <<>>
  /\ classicAST' = NoDocument
  /\ fragmentID' = 0
  /\ fragments' = <<>>
  /\ variables' = <<>>
  /\ argumentDefinitions' = NoArgumentDefinitions
  /\ UNCHANGED <<document, scope, substitutions, transformedAST, printerVars,
                 modernVars, earlier>>

\* the visitor returned: visit() goes on with the next node
Continue(edited) ==
  /\ classicAST' = edited
  /\ visiting' = Tail(visiting)
  /\ UNCHANGED <<document, scope, phase, failure, substitutions, transformedAST, printerVars,
                 modernVars, earlier>>

Entering(kind) ==
  /\ phase = "visit"
  /\ visiting # <<>>
  /\ IF Head(visiting)[Len(Head(visiting))][1] = "arguments"
     THEN kind = "Variable"
     ELSE NodeAt(classicAST, Head(visiting)).kind = kind

\* visitors.Directive
VisitDirective ==
  /\ Entering("Directive")
  /\ LET node == NodeAt(classicAST, Head(visiting))
     IN CASE node.name = "argumentDefinitions" ->
               IF alreadyDefined(argumentDefinitions)
               THEN Raise("DuplicateArgumentDefinitions")
               ELSE /\ argumentDefinitions' = [present |-> TRUE, list |-> node.arguments]
                    /\ Continue(ReplaceAt(classicAST, Head(visiting), Removed))
                    /\ UNCHANGED <<fragmentID, fragments, variables>>
          [] node.name = "connection" ->
               /\ Continue(ReplaceAt(classicAST, Head(visiting), Removed))
               /\ UNCHANGED <<fragmentID, fragments, variables, argumentDefinitions>>
          [] OTHER ->
               /\ Continue(classicAST)
               /\ UNCHANGED <<fragmentID, fragments, variables, argumentDefinitions>>

\* visitors.FragmentSpread, when the spread has no directive
VisitBareSpread(node) ==
  /\ fragments' = PutKey(fragments, node.name, Fragment(node.name, <<>>, TRUE))
  /\ Continue(ReplaceAt(classicAST, Head(visiting), FragmentSpreadNode(node.name, <<>>)))
  /\ UNCHANGED <<fragmentID, variables, argumentDefinitions>>

\* visitors.FragmentSpread, case 'arguments'
VisitArgumentsSpread(node) ==
  /\ variables' = argumentVariables(node.directives[1].arguments, variables)
  /\ fragmentID' = nextFragmentID(fragmentID)
  /\ fragments' = PutKey(fragments, argumentsSlotName(node.name, fragmentID'),
                         Fragment(node.name,
                                  <<fragmentArgumentsObject(node.directives[1].arguments)>>,
                                  TRUE))
  /\ Continue(ReplaceAt(classicAST, Head(visiting),
                        FragmentSpreadNode(argumentsSlotName(node.name, fragmentID'), <<>>)))
  /\ UNCHANGED argumentDefinitions

\* visitors.FragmentSpread, case 'relay'
VisitRelaySpread(node) ==
  /\ fragments' = PutKey(fragments, node.name,
                         Fragment(node.name, <<>>,
                                  isMaskedBy(node.directives[1].arguments[1].value)))
  /\ Continue(ReplaceAt(classicAST, Head(visiting), FragmentSpreadNode(node.name, <<>>)))
  /\ UNCHANGED <<fragmentID, variables, argumentDefinitions>>

\* visitors.FragmentSpread
VisitFragmentSpread ==
  /\ Entering("FragmentSpread")
  /\ LET node == NodeAt(classicAST, Head(visiting))
     IN IF spreadError(node.directives) # "" THEN Raise(spreadError(node.directives))
        ELSE IF Len(node.directives) = 0 THEN VisitBareSpread(node)
        ELSE IF node.directives[1].name = "arguments" THEN VisitArgumentsSpread(node)
        ELSE VisitRelaySpread(node)

\* visitors.Variable
VisitVariable ==
  /\ Entering("Variable")
  /\ variables' = AddKey(variables, NodeAt(classicAST, Head(visiting)).value.value)
  /\ Continue(classicAST)
  /\ UNCHANGED <<fragmentID, fragments, argumentDefinitions>>

\* createClassicAST: `const classicAST = visit(definition, visitors)` and the return
ReturnClassicAST ==
  /\ phase = "visit"
  /\ visiting = <<>>
  /\ phase' = "returned"
  /\ classicAST' = ApplyEdits(classicAST)
  /\ UNCHANGED <<document, scope, visiting, fragmentID, fragments, variables,
                 argumentDefinitions, failure, substitutions, transformedAST, printerVars,
                 modernVars, earlier>>

(***************************************************************************)
(* createSubstitutionsForFragmentSpreads: one variable declaration per     *)
(* slot, in the key order of `fragments`.                                  *)
(***************************************************************************)
\* getFragmentNameParts: <<module, propName>> of a fragment name; a name without
\* a property part has the property name `data`
getFragmentNameParts(name) ==
  CASE name = "Foo_item" -> <<"Foo", "item">>
    [] name = "Foo_args1" -> <<"Foo", "args1">>
    [] OTHER -> <<name, "data">>

\* scopeAnalyzer.getBindingAtNode(node, name), "none" for null
getBindingAtNode(name) == IF name \in DOMAIN scope THEN scope[name] ELSE "none"

isDefinedLocally(name) == getBindingAtNode(name) \notin {"none", "Import", "Require"}

Declaration(varName, kind, container, module, prop, args) ==
  [name |-> varName, kind |-> kind, container |-> container, module |-> module,
   prop |-> prop, args |-> args]

\* the initializer of a masked slot: <container>.getFragment(propName[, args])
createGetFragmentCall_nullArgs(varName, module, propName, fragmentArguments) ==
  Declaration(varName, "getFragment",
              IF isDefinedLocally(module) THEN "__container__ || module" ELSE "module",
              module, "",
              (IF propName # "" THEN <<propName>> ELSE <<>>)
              \o (IF fragmentArguments = <<>> THEN <<"null">> ELSE fragmentArguments))

createGetFragmentCall(varName, module, propName, fragmentArguments) ==
  Declaration(varName, "getFragment",
              IF isDefinedLocally(module) THEN "__container__ || module" ELSE "module",
              module, "",
              (IF propName # "" THEN <<propName>> ELSE <<>>) \o fragmentArguments)

\* the initializer of an unmasked slot: __getClassicFragment(fragmentProp, true).node
createGetClassicFragment_modulePreferred(varName, module, propName) ==
  Declaration(varName, "__getClassicFragment",
              IF getBindingAtNode(module) # "none" THEN "module" ELSE "local",
              module, propName, <<>>)

createGetClassicFragment(varName, module, propName) ==
  Declaration(varName, "__getClassicFragment",
              IF getBindingAtNode(propName) # "none" THEN "local" ELSE "module",
              module, propName, <<>>)

\* the slot cannot be resolved: neither name is bound at the tagged literal
unresolved_anySlot(fragment) ==
  /\ getBindingAtNode(getFragmentNameParts(fragment.name)[1]) = "none"
  /\ getBindingAtNode(getFragmentNameParts(fragment.name)[2]) = "none"

unresolved(fragment) ==
  /\ ~ fragment.isMasked
  /\ getBindingAtNode(getFragmentNameParts(fragment.name)[1]) = "none"
  /\ getBindingAtNode(getFragmentNameParts(fragment.name)[2]) = "none"

substitutionFor(varName, fragment) ==
  IF fragment.isMasked
  THEN createGetFragmentCall(varName, getFragmentNameParts(fragment.name)[1],
                             getFragmentNameParts(fragment.name)[2], fragment.args)
  ELSE createGetClassicFragment(varName, getFragmentNameParts(fragment.name)[1],
                                getFragmentNameParts(fragment.name)[2])

createSubstitutionsForFragmentSpreads ==
  /\ phase = "returned"
  /\ IF \E i \in 1..Len(fragments) : unresolved(fragments[i][2])
     THEN /\ phase' = "raised"
          /\ failure' = "UnresolvedFragmentReference"
          /\ substitutions' = <<>>
     ELSE /\ phase' = "resolved"
          /\ failure' = ""
          /\ substitutions' = [i \in 1..Len(fragments) |->
                                 substitutionFor(fragments[i][1], fragments[i][2])]
  /\ UNCHANGED <<document, scope, visiting, classicAST, fragmentID, fragments, variables,
                 argumentDefinitions, transformedAST, printerVars,
                 modernVars, earlier>>

(***************************************************************************)
(* createFragmentConcreteNode and createOperationConcreteNode, from        *)
(* `const transformedAST = createObject({...})`.  The properties of the    *)
(* object are evaluated in order: kind, argumentDefinitions, then the      *)
(* template printed from classicAST (the printer's part, not repeated      *)
(* here).                                                                  *)
(***************************************************************************)
\* an argument whose value is an object: name: {field: value, ...}
ObjectArgumentNode(name, fields) ==
  [name |-> name, value |-> [kind |-> "ObjectValue", value |-> "", fields |-> fields]]

NullLiteral == [kind |-> "Null", of |-> "", value |-> ""]

createLocalArgument(variableName, defaultValue) ==
  [defaultValue |-> defaultValue, kind |-> "LocalArgument", name |-> variableName]

createRootArgument(variableName) == [kind |-> "RootArgument", name |-> variableName]

\* (argumentDefinitions || []).find(arg => arg.name.value === name): its index, 0 if none
findArgumentDefinition(captured, name) ==
  IF \E i \in 1..Len(captured.list) : captured.list[i].name = name
  THEN CHOOSE i \in 1..Len(captured.list) :
         /\ captured.list[i].name = name
         /\ \A j \in 1..(i - 1) : captured.list[j].name # name
  ELSE 0

\* definition.value.fields.find(field => field.name.value === 'defaultValue')
findDefaultValueField(fields) ==
  IF \E i \in 1..Len(fields) : fields[i].name = "defaultValue"
  THEN CHOOSE i \in 1..Len(fields) :
         /\ fields[i].name = "defaultValue"
         /\ \A j \in 1..(i - 1) : fields[j].name # "defaultValue"
  ELSE 0

\* the entry of one variable name: err is the error raised, "" if none
localArgument(name, fields) ==
  IF findDefaultValueField(fields) = 0
  THEN [err |-> "", val |-> createLocalArgument(name, NullLiteral)]
  ELSE IF parseValue(fields[findDefaultValueField(fields)].value).kind = ""
       THEN [err |-> "UnsupportedLiteral", val |-> createRootArgument(name)]
       ELSE [err |-> "",
             val |-> createLocalArgument(name,
                       parseValue(fields[findDefaultValueField(fields)].value))]

concreteDefinition_rootOnly(captured, name) == [err |-> "", val |-> createRootArgument(name)]

concreteDefinition(captured, name) ==
  IF findArgumentDefinition(captured, name) = 0
  THEN [err |-> "", val |-> createRootArgument(name)]
  ELSE IF captured.list[findArgumentDefinition(captured, name)].value.kind # "ObjectValue"
       THEN [err |-> "TypeError", val |-> createRootArgument(name)]   \* undefined.find
       ELSE localArgument(name,
              captured.list[findArgumentDefinition(captured, name)].value.fields)

\* Object.keys(variables).forEach: the entries in key order, or the first error
createFragmentArguments(captured, names) ==
  LET entries == [i \in 1..Len(names) |-> concreteDefinition(captured, names[i])]
  IN IF \E i \in 1..Len(names) : entries[i].err # ""
     THEN [err |-> entries[CHOOSE i \in 1..Len(names) :
                             /\ entries[i].err # ""
                             /\ \A j \in 1..(i - 1) : entries[j].err = ""].err,
           val |-> <<>>]
     ELSE [err |-> "", val |-> [i \in 1..Len(names) |-> entries[i].val]]

\* createOperationArguments(definition.variableDefinitions); the definitions of
\* the model declare no variables
createOperationArguments == <<>>

createFragmentConcreteNode ==
  /\ phase = "resolved"
  /\ document.kind = "FragmentDefinition"
  /\ IF createFragmentArguments(argumentDefinitions, variables).err # ""
     THEN /\ phase' = "raised"
          /\ failure' = createFragmentArguments(argumentDefinitions, variables).err
          /\ transformedAST' = NoObject
     ELSE /\ phase' = "assembled"
          /\ failure' = ""
          /\ transformedAST' =
               [kind |-> "FragmentDefinition",
                argumentDefinitions |->
                  createFragmentArguments(argumentDefinitions, variables).val]
  /\ UNCHANGED <<document, scope, visiting, classicAST, fragmentID, fragments, variables,
                 argumentDefinitions, substitutions, printerVars, modernVars, earlier>>

createOperationConcreteNode ==
  /\ phase = "resolved"
  /\ document.kind = "OperationDefinition"
  /\ phase' = "assembled"
  /\ transformedAST' = [kind |-> "OperationDefinition",
                        argumentDefinitions |-> createOperationArguments]
  /\ UNCHANGED <<document, scope, visiting, classicAST, fragmentID, fragments, variables,
                 argumentDefinitions, failure, substitutions, printerVars, modernVars,
                 earlier>>

(***************************************************************************)
(* createModernNode: the function expression that requires the generated   *)
(* artifact.  A statement is [stmt, test, value, body]; expressions are    *)
(* kept as their parts: a require is <<"require", path, "default">>, the   *)
(* hash test is <<"node.hash", "&&", "node.hash", "!==", hash>>, the       *)
(* console.error call carries the parts of its message, without the quote  *)
(* marks around the name and the command.  isDevVariable and the other     *)
(* optional strings are <<>> for null and undefined.                       *)
(***************************************************************************)
GENERATED == "./__generated__/"

Statement(stmt, test, value, body) ==
  [stmt |-> stmt, test |-> test, value |-> value, body |-> body]

\* path.join(artifactDirectory, fileToRequire), for a directory without a trailing slash
getRelativeImportPath(artifactDirectory, fileToRequire) ==
  artifactDirectory \o "/" \o fileToRequire

\* print(graphqlDefinition): the text of the definition
RECURSIVE printSelectionSet(_)
printSelectionSet(selections) ==
  IF selections = <<>> THEN ""
  ELSE " " \o Head(selections).name \o printSelectionSet(Tail(selections))

printDefinition(def) ==
  (IF def.kind = "FragmentDefinition" THEN "fragment " ELSE "query ")
  \o def.name \o " {" \o printSelectionSet(def.selections) \o " }"

\* crypto.createHash('md5').update(text, 'utf8').digest('hex')
md5(text) == "md5(" \o text \o ")"

warnNeedsRebuild(definitionName, buildCommand) ==
  Statement("expression", <<>>,
            <<"console.error", "The definition of ", definitionName,
              " appears to have changed. Run ",
              IF buildCommand = <<>> \/ buildCommand = <<"">>
              THEN "relay-compiler" ELSE buildCommand[1],
              " to update the generated files to receive the expected data.">>,
            <<>>)

\* opts.isDevVariable != null || opts.isDevelopment
hasHashCheck_developmentOnly(o) == o.isDevelopment

hasHashCheck(o) == o.isDevVariable # <<>> \/ o.isDevelopment

\* const node = require(...).default; if (node.hash && node.hash !== hash) {...}
checkStatements(o, definitionName, requireGraphQLModule, hash) ==
  << Statement("const node", <<>>, requireGraphQLModule, <<>>),
     Statement("if", <<"node.hash", "&&", "node.hash", "!==", hash>>, <<>>,
               <<warnNeedsRebuild(definitionName, o.buildCommand)>>) >>

\* if (<isDevVariable>) { checkStatements }
guardedStatements(o, statements) ==
  IF o.isDevVariable # <<>>
  THEN <<Statement("if", o.isDevVariable, <<>>, statements)>>
  ELSE statements

bodyStatements(o, definitionName, requireGraphQLModule, hash) ==
  (IF hasHashCheck(o)
   THEN guardedStatements(o, checkStatements(o, definitionName, requireGraphQLModule, hash))
   ELSE <<>>)
  \o <<Statement("return", <<>>, requireGraphQLModule, <<>>)>>

requiredPath(o, definitionName) ==
  IF o.artifactDirectory # <<>> /\ o.artifactDirectory # <<"">>
  THEN getRelativeImportPath(o.artifactDirectory[1], definitionName \o ".graphql.ts")
  ELSE GENERATED \o definitionName \o ".graphql.ts"

Pending == [state |-> "pending", error |-> "", body |-> <<>>]

createModernNode ==
  /\ modernNode = Pending
  /\ modernNode' =
       IF graphqlDefinition.name = ""
       THEN [state |-> "raised", error |-> "MissingDefinitionName", body |-> <<>>]
       ELSE [state |-> "function", error |-> "",
             body |-> bodyStatements(modernOpts, graphqlDefinition.name,
                        <<"require", requiredPath(modernOpts, graphqlDefinition.name),
                          "default">>,
                        md5(printDefinition(graphqlDefinition)))]
  /\ UNCHANGED <<graphqlDefinition, modernOpts, printerVars, assemblerVars, earlier>>

(***************************************************************************)
(* The definitions compiled: bounded families of inputs.                   *)
(***************************************************************************)
Lit(name) == Arg(name, FALSE, "5")

Var(name) == Arg(name, TRUE, name)

\* Every way of supplying some of the declared arguments, each as a literal or
\* as a variable (a supplied argument is always a declared one).
RECURSIVE ArgChoices(_)
ArgChoices(declared) ==
  IF declared = <<>> THEN {<<>>}
  ELSE LET rest == ArgChoices(Tail(declared))
       IN rest \cup {<<a>> \o r : a \in {Lit(Head(declared)), Var(Head(declared))},
                                  r \in rest}

BoundedArgs(declared) == {a \in ArgChoices(declared) : Len(a) <= MaxArgs}

\* One declared argument supplied twice, as a literal and as a variable.
RepeatedArgs(declared) ==
  {<<Lit(declared[i]), Var(declared[i])>> : i \in 1..Len(declared)}

\* A few argument lists for inputs whose subject is not the arguments.
SomeArgs(declared) ==
  {a \in ArgChoices(declared) :
     \/ Len(a) = 0
     \/ (Len(a) = 1 /\ a[1] \in {Lit("first"), Lit("find")})}

Generated == Directive("generated", <<>>)

GenDirectives(gen) == IF gen THEN <<Generated>> ELSE <<>>

\* selections wrapped in one inline fragment per flag, the flag telling whether
\* that fragment carries @generated; the outermost fragment comes first
RECURSIVE Wrap(_, _, _)
Wrap(selections, type, flags) ==
  IF flags = <<>> THEN selections
  ELSE <<RelayQLInlineFragment(type, GenDirectives(Head(flags)),
                               Wrap(selections, type, Tail(flags)))>>

Flags == UNION {[1..k -> BOOLEAN] : k \in 0..MaxWrap}

PlainFlags == {[i \in 1..k |-> FALSE] : k \in {0, MaxWrap}}

\* a connection field is a pattern, stands below a @generated fragment, or neither
ConnectionVariants == {<<FALSE, FALSE>>, <<TRUE, FALSE>>, <<FALSE, TRUE>>}

Leaf(type, name) == RelayQLField(type, name, <<>>, <<>>, <<>>)

\* Selection sets for a composite type: with and without an explicit __typename
\* (once, twice), an explicit id, an inline fragment on Node, a spread.
RootSelections(type) ==
  LET ids == IF hasField(type, ID) THEN {<<Leaf(type, ID)>>} ELSE {}
      names == IF hasField(type, "name") THEN {<<Leaf(type, "name")>>} ELSE {}
      first == {<<>>} \cup ids \cup names
      second == {<<>>, <<Leaf(type, "__typename")>>,
                 <<Leaf(type, "__typename"), Leaf(type, "__typename")>>,
                 <<RelayQLInlineFragment("Node", <<>>, <<>>)>>,
                 <<RelayQLInlineFragment(type, <<>>, <<Leaf(type, "__typename")>>)>>,
                 <<RelayQLFragmentSpread("Foo", <<>>)>>}
  IN {a \o b : a \in first, b \in second}

RootFieldChoices(rootType, withSelections) ==
  UNION {{RelayQLField(rootType, name, args, <<>>, selections) :
            args \in BoundedArgs(Schema[rootType].fields[name].declared)
                     \cup (IF withSelections THEN {}
                           ELSE RepeatedArgs(Schema[rootType].fields[name].declared)),
            selections \in IF withSelections
                            THEN RootSelections(Schema[rootType].fields[name].type)
                            ELSE {<<>>}} :
         name \in DOMAIN Schema[rootType].fields}

Filler(rootType) ==
  Leaf(rootType, CHOOSE n \in DOMAIN Schema[rootType].fields : n \in {"me", "like"})

\* rootField followed by 0 .. MaxRootFields - 1 further top-level fields
WithFillers(rootType, rootField) ==
  {<<rootField>> \o [i \in 1..k |-> Filler(rootType)] : k \in 0..(MaxRootFields - 1)}

DefaultOptions == [inputArgumentName |-> "", snakeCase |-> FALSE]

NotPrinted == Return(NoNode, <<>>)

\* one print() call: the definition, the printer's options and variable table
Start(def, opts, names, validate) ==
  /\ definition = def
  /\ options = opts
  /\ variableNames = names
  /\ enableValidation = validate
  /\ pc = "ready"
  /\ result = NotPrinted
  /\ document = NoDocument
  /\ scope = <<>>
  /\ phase = "idle"
  /\ visiting = <<>>
  /\ classicAST = NoDocument
  /\ fragmentID = 0
  /\ fragments = <<>>
  /\ variables = <<>>
  /\ argumentDefinitions = NoArgumentDefinitions
  /\ failure = ""
  /\ substitutions = <<>>
  /\ transformedAST = NoObject
  /\ NoModernCall
  /\ earlier = <<>>

OperationKinds == {<<"Query", "Query">>, <<"Mutation", "Mutation">>,
                   <<"Subscription", "Subscription">>}

\* operations, default options: the root field, its arguments and its selections vary
OperationInputs ==
  \E k \in OperationKinds :
    \E f \in RootFieldChoices(k[2], TRUE), validate \in BOOLEAN :
      \E fields \in WithFillers(k[2], f) :
        Start(Operation(k[1], "Op", k[2], <<>>, fields), DefaultOptions, {}, validate)

\* mutations and subscriptions: the options and the variable table vary
RootCallInputs ==
  \E k \in OperationKinds \ {<<"Query", "Query">>} :
    \E f \in RootFieldChoices(k[2], FALSE), validate \in BOOLEAN,
       name \in {"", "input", "data"}, names \in {{}, {"input"}, {"first"}} :
      \E fields \in WithFillers(k[2], f) :
        Start(Operation(k[1], "Op", k[2], <<>>, fields),
              [inputArgumentName |-> name, snakeCase |-> FALSE], names, validate)

CompositeTypes == {t \in DOMAIN Schema : Schema[t].role # "scalar"}

\* fragments on every composite type
FragmentInputs ==
  \E type \in CompositeTypes :
    \E selections \in RootSelections(type), gen \in BOOLEAN :
      Start(RelayQLFragment("Frag", type, GenDirectives(gen), selections),
            DefaultOptions, {}, TRUE)

\* a fragment with one field of a composite type: the field's selections vary
FieldInputs ==
  \E type \in {"Query", "User", "UserEdge", "LikePayload"} :
    \E name \in {n \in DOMAIN Schema[type].fields :
                   canHaveSubselections(Schema[type].fields[n].type)} :
      \E selections \in RootSelections(getFieldDefinition(type, name).type),
         gen \in BOOLEAN :
        Start(RelayQLFragment("Frag", type, GenDirectives(gen),
                <<RelayQLField(type, name, <<>>, <<>>, selections)>>),
              DefaultOptions, {}, TRUE)

\* a connection field below inline fragments: its arguments vary
ConnectionArgumentInputs ==
  \E args \in BoundedArgs(PagingArgs), flags \in Flags, gen \in BOOLEAN :
    Start(RelayQLFragment("Frag", "User", GenDirectives(gen),
            Wrap(<<RelayQLField("User", "friends", args, <<>>,
                                <<Leaf("UserConnection", "edges")>>)>>,
                 "User", flags)),
          DefaultOptions, {}, TRUE)

\* what a connection's selection set is made of: each field of the type, the
\* pageInfo field twice, edges with nested selections, a spread
ConnectionItems(type) ==
  LET edgeType == getFieldDefinition(type, "edges").type
      nested == RelayQLField("User", "friends", <<Lit("first"), Lit("last")>>, <<>>,
                             <<Leaf("UserConnection", "edges")>>)
  IN {<<Leaf(type, n)>> : n \in DOMAIN Schema[type].fields}
     \cup (IF hasField(type, "pageInfo")
           THEN {<<Leaf(type, "pageInfo"), Leaf(type, "pageInfo")>>} ELSE {})
     \cup {<<RelayQLField(type, "edges", <<>>, <<>>, <<Leaf(edgeType, "others")>>)>>,
           <<RelayQLField(type, "edges", <<>>, <<>>,
                          <<RelayQLField(edgeType, "node", <<>>, <<>>, <<nested>>)>>)>>,
           <<RelayQLFragmentSpread("Foo", <<>>)>>}

RECURSIVE Sequences(_, _)
Sequences(items, n) ==
  IF n = 0 THEN {<<>>}
  ELSE LET shorter == Sequences(items, n - 1)
       IN shorter \cup {q \o x : q \in shorter, x \in items}

ConnectionFieldNames == {"friends", "allFriends", "pals"}

\* a connection field: its selection set varies, directly and through inline fragments
ConnectionSelectionInputs ==
  \E name \in ConnectionFieldNames :
    \E args \in SomeArgs(getFieldDefinition("User", name).declared),
       selections \in Sequences(ConnectionItems(getFieldDefinition("User", name).type),
                                MaxSiblings),
       flags \in PlainFlags, variant \in ConnectionVariants :
      Start(RelayQLFragment("Frag", "User", GenDirectives(variant[2]),
              <<[RelayQLField("User", name, args, <<>>,
                              Wrap(selections, getFieldDefinition("User", name).type,
                                   flags))
                 EXCEPT !.pattern = variant[1]]>>),
            DefaultOptions, {}, TRUE)

\* a `node` field below inline fragments, on the type the fragment is on
NodeFieldInputs ==
  \E type \in {"Query", "User", "UserEdge"} :
    \E args \in BoundedArgs(getFieldDefinition(type, "node").declared),
       flags \in Flags, gen \in BOOLEAN :
      Start(RelayQLFragment("Frag", type, GenDirectives(gen),
              Wrap(<<RelayQLField(type, "node", args, <<>>, <<>>)>>, type, flags)),
            DefaultOptions, {}, TRUE)

\* a `node` field of User below the root field `me`, in a fragment and in a query
NestedNodeFieldInputs ==
  \E args \in BoundedArgs(getFieldDefinition("User", "node").declared),
     flags \in Flags, gen \in BOOLEAN, validate \in BOOLEAN :
    \/ Start(RelayQLFragment("Frag", "Query", GenDirectives(gen),
               <<RelayQLField("Query", "me", <<>>, <<>>,
                   Wrap(<<RelayQLField("User", "node", args, <<>>, <<>>)>>, "User",
                        flags))>>),
             DefaultOptions, {}, TRUE)
    \/ Start(Operation("Query", "Op", "Query", <<>>,
               <<RelayQLField("Query", "me", <<>>, <<>>,
                   Wrap(<<RelayQLField("User", "node", args, <<>>, <<>>)>>, "User",
                        flags))>>),
             DefaultOptions, {}, validate)

\* The directive lists of a node: an optional @relay directive among @include
\* and @skip.  The @relay arguments are scalars (some named like a computed
\* metadata key), a `variables` list, or bound to a variable.
RelayArgumentChoices ==
  {<<Arg("plural", FALSE, "true")>>,
   <<Arg("isAbstract", FALSE, "true"), Arg("isPlural", FALSE, "false")>>,
   <<Arg("isAbstract", FALSE, "false"), Arg("isGenerated", FALSE, "false")>>,
   <<ListArg("variables", <<"size">>), Arg("pattern", FALSE, "true")>>,
   <<Arg("variables", FALSE, "size")>>,
   <<Arg("plural", TRUE, "size")>>,
   <<Arg("pattern", FALSE, "true"), Arg("variables", TRUE, "size")>>}

DirectiveChoices ==
  LET include == Directive("include", <<Var("if")>>)
      skip == Directive("skip", <<Lit("if")>>)
  IN {<<>>, <<include, skip>>, <<skip, include, skip>>}
     \cup UNION {{<<Directive("relay", args)>>,
                  <<include, Directive("relay", args)>>,
                  <<Directive("relay", args), skip, include>>} :
                 args \in RelayArgumentChoices}

\* what the selection set of a field with directives is made of
DirectedFieldSelections(type) ==
  IF ~ canHaveSubselections(type) THEN {<<>>}
  ELSE {<<>>,
        <<Leaf(type, "others"), Leaf(type, "cursor")>>,
        <<RelayQLFragmentSpread("Foo", <<>>)>>,
        <<RelayQLInlineFragment(type, <<>>, <<RelayQLFragmentSpread("Foo", <<>>)>>)>>,
        <<RelayQLInlineFragment(type, <<>>, <<Leaf(type, "node")>>), Leaf(type, "node"),
          RelayQLFragmentSpread("Foo", <<>>)>>}

\* a fragment with directives holding one field with directives
DirectiveInputs ==
  \E place \in {<<"UserConnection", "edges">>, <<"Actor", "name">>} :
    \E fragmentDirectives \in DirectiveChoices, fieldDirectives \in DirectiveChoices,
       names \in {{}, {"size"}} :
      \E selections \in DirectedFieldSelections(getFieldDefinition(place[1], place[2]).type) :
        Start(RelayQLFragment("Frag", place[1], fragmentDirectives,
                <<RelayQLField(place[1], place[2], <<>>, fieldDirectives, selections)>>),
              DefaultOptions, names, TRUE)

(***************************************************************************)
(* The documents given to the classic-node assembler.                      *)
(***************************************************************************)
\* one createClassicNode call: the definition and the scope at the tagged literal
Assemble(def, bindings) ==
  /\ document = def
  /\ scope = bindings
  /\ phase = "visit"
  /\ visiting = VisitorCalls(def, <<>>)
  /\ classicAST = def
  /\ fragmentID = 0
  /\ fragments = <<>>
  /\ variables = <<>>
  /\ argumentDefinitions = NoArgumentDefinitions
  /\ failure = ""
  /\ substitutions = <<>>
  /\ transformedAST = NoObject
  /\ NoModernCall
  /\ earlier = <<>>
  /\ definition = RelayQLFragment("", "Query", <<>>, <<>>)
  /\ options = DefaultOptions
  /\ variableNames = {}
  /\ enableValidation = FALSE
  /\ pc = "idle"
  /\ result = NotPrinted

BindingKinds == {"none", "Import", "Local"}

Scopes == [{"Foo", "data"} -> BindingKinds]

SomeScopes == {[n \in {"Foo", "data"} |-> "none"], [n \in {"Foo", "data"} |-> "Import"]}

Arguments(value) == DirectiveNode("arguments", <<value>>)

Mask(kind, value) == DirectiveNode("relay", <<ArgumentNode("mask", kind, value)>>)

\* the spreads a definition is made of: bare, with @arguments, with @relay(mask:)
SpreadItems ==
  {FragmentSpreadNode("Foo", <<>>),
   FragmentSpreadNode("Bar", <<>>),
   FragmentSpreadNode("Foo", <<Arguments(ArgumentNode("size", "Variable", "size"))>>),
   FragmentSpreadNode("Bar", <<Arguments(ArgumentNode("size", "IntValue", "1"))>>),
   FragmentSpreadNode("Foo", <<Mask("BooleanValue", "false")>>),
   FragmentSpreadNode("Foo_item", <<Mask("BooleanValue", "true")>>)}

RECURSIVE SpreadSequences(_)
SpreadSequences(n) ==
  IF n = 0 THEN {<<>>}
  ELSE LET shorter == SpreadSequences(n - 1)
       IN shorter \cup {Append(q, x) : q \in shorter, x \in SpreadItems}

\* definitions whose selections are spreads
SpreadSequenceInputs ==
  \E selections \in SpreadSequences(MaxSpreads), bindings \in SomeScopes :
    Assemble(DefinitionNode("FragmentDefinition", "Frag_data", <<>>, selections), bindings)

\* spreads whose slot names collide: an @arguments-generated name and a fragment
\* of that name, a masked and an unmasked spread of one fragment
CollidingItems ==
  {FragmentSpreadNode("Foo", <<Arguments(ArgumentNode("size", "Variable", "size"))>>),
   FragmentSpreadNode("Foo_args1", <<>>),
   FragmentSpreadNode("Foo_args1", <<Mask("BooleanValue", "false")>>),
   FragmentSpreadNode("Foo", <<>>),
   FragmentSpreadNode("Foo", <<Mask("BooleanValue", "false")>>)}

RECURSIVE CollidingSequences(_)
CollidingSequences(n) ==
  IF n = 0 THEN {<<>>}
  ELSE LET shorter == CollidingSequences(n - 1)
       IN shorter \cup {Append(q, x) : q \in shorter, x \in CollidingItems}

SlotCollisionInputs ==
  \E selections \in CollidingSequences(MaxSpreads), bindings \in SomeScopes :
    Assemble(DefinitionNode("FragmentDefinition", "Frag_data", <<>>, selections), bindings)

\* the directive lists a spread may carry
SpreadDirectiveChoices ==
  LET arguments == Arguments(ArgumentNode("size", "Variable", "size"))
      unmask == Mask("BooleanValue", "false")
      include == DirectiveNode("include", <<ArgumentNode("if", "Variable", "cond")>>)
      skip == DirectiveNode("skip", <<ArgumentNode("if", "BooleanValue", "true")>>)
  IN {<<>>, <<arguments>>, <<unmask>>,
      <<DirectiveNode("arguments", <<>>)>>,
      <<DirectiveNode("arguments", <<ArgumentNode("size", "IntValue", "1"),
                                     ArgumentNode("size", "Variable", "size"),
                                     ArgumentNode("after", "Variable", "cursor")>>)>>,
      <<Arguments(ArgumentNode("size", "ObjectValue", ""))>>,
      <<Mask("BooleanValue", "true")>>, <<Mask("StringValue", "false")>>,
      <<Mask("Variable", "mask")>>, <<Mask("IntValue", "0")>>,
      <<DirectiveNode("relay", <<>>)>>,
      <<DirectiveNode("relay", <<ArgumentNode("plural", "BooleanValue", "false")>>)>>,
      <<DirectiveNode("relay", <<ArgumentNode("mask", "BooleanValue", "false"),
                                 ArgumentNode("plural", "BooleanValue", "true")>>)>>,
      <<include>>, <<skip>>,
      <<DirectiveNode("connection", <<ArgumentNode("key", "StringValue", "k")>>)>>,
      <<DirectiveNode("argumentDefinitions", <<>>)>>,
      <<arguments, unmask>>, <<unmask, arguments>>, <<arguments, arguments>>,
      <<unmask, unmask>>, <<include, skip>>, <<arguments, include>>, <<skip, unmask>>,
      <<include, arguments, unmask>>}

\* where the spread stands: in the definition, in a field, in an inline fragment,
\* after another spread
Placed(spread) ==
  {<<spread>>,
   <<FragmentSpreadNode("Foo", <<>>), spread>>,
   <<FieldNode("me", <<ArgumentNode("id", "Variable", "id")>>, <<>>, <<spread>>)>>,
   <<InlineFragmentNode(<<>>, <<FragmentSpreadNode("Bar", <<Arguments(ArgumentNode("size", "IntValue", "1"))>>), spread>>)>>}

\* one spread with every directive list, in fragments and operations
SpreadDirectiveInputs ==
  \E directives \in SpreadDirectiveChoices, name \in {"Foo", "Foo_item"},
     kind \in {"FragmentDefinition", "OperationDefinition"}, bindings \in Scopes :
    \E selections \in Placed(FragmentSpreadNode(name, directives)) :
      Assemble(DefinitionNode(kind, "Frag_data", <<>>, selections), bindings)

\* directive lists with and without @argumentDefinitions
DefinitionDirectiveChoices ==
  LET define == DirectiveNode("argumentDefinitions",
                              <<ArgumentNode("size", "ObjectValue", "Int"),
                                ArgumentNode("cursor", "ObjectValue", "ID")>>)
      empty == DirectiveNode("argumentDefinitions", <<>>)
      include == DirectiveNode("include", <<ArgumentNode("if", "Variable", "cond")>>)
      connection == DirectiveNode("connection", <<ArgumentNode("key", "Variable", "key")>>)
  IN {<<>>, <<define>>, <<empty>>, <<include, define>>, <<define, connection>>,
      <<define, define>>, <<empty, define>>, <<include, connection>>}

\* @argumentDefinitions on the definition, on a field, on an inline fragment
ArgumentDefinitionInputs ==
  \E onDefinition \in DefinitionDirectiveChoices, onField \in DefinitionDirectiveChoices,
     onFragment \in DefinitionDirectiveChoices,
     spread \in {FragmentSpreadNode("Foo", <<>>),
                 FragmentSpreadNode("Foo", <<DirectiveNode("argumentDefinitions", <<>>)>>)},
     kind \in {"FragmentDefinition", "OperationDefinition"} :
    Assemble(DefinitionNode(kind, "Frag_data", onDefinition,
               <<FieldNode("me", <<>>, onField,
                           <<spread, InlineFragmentNode(onFragment, <<FieldNode("id", <<>>, <<>>, <<>>)>>)>>)>>),
             [n \in {"Foo", "data"} |-> "Import"])

\* what @argumentDefinitions may declare: size with a default, cursor without,
\* a name declared twice, a value that is no object, a default parseValue rejects
ArgumentDeclarations ==
  LET type == ArgumentNode("type", "StringValue", "Int")
      size == ObjectArgumentNode("size", <<type, ArgumentNode("defaultValue", "IntValue", "10")>>)
      sizeAgain == ObjectArgumentNode("size", <<ArgumentNode("defaultValue", "IntValue", "20"), type>>)
      cursor == ObjectArgumentNode("cursor", <<ArgumentNode("type", "StringValue", "ID")>>)
      bare == ObjectArgumentNode("cursor", <<>>)
      scalar == ArgumentNode("size", "IntValue", "10")
      variable == ObjectArgumentNode("size", <<type, ArgumentNode("defaultValue", "Variable", "n")>>)
  IN {<<size, cursor>>, <<cursor, size>>, <<size>>, <<size, sizeAgain>>, <<bare>>,
      <<scalar, cursor>>, <<variable, cursor>>}

\* the variables a fragment refers to: in field arguments, in @include, in @arguments
ReferenceChoices ==
  {<<>>, <<"size">>, <<"cursor">>, <<"other">>, <<"size", "cursor">>, <<"cursor", "size">>,
   <<"other", "size">>, <<"size", "other">>, <<"size", "size">>}

\* fragments and operations that declare arguments and refer to variables
FragmentArgumentInputs ==
  \E declared \in {<<>>} \cup {<<DirectiveNode("argumentDefinitions", d)>> :
                               d \in ArgumentDeclarations \cup {<<>>}},
     names \in ReferenceChoices, inSpread \in {"", "size", "after"},
     kind \in {"FragmentDefinition", "OperationDefinition"} :
    Assemble(DefinitionNode(kind, "Frag_data", declared,
               <<FieldNode("me", [i \in 1..Len(names) |->
                                    ArgumentNode(names[i], "Variable", names[i])],
                           <<>>, <<>>)>>
               \o (IF inSpread = "" THEN <<>>
                   ELSE <<FragmentSpreadNode("Foo",
                            <<Arguments(ArgumentNode("size", "Variable", inSpread))>>)>>)),
             [n \in {"Foo", "data"} |-> "Import"])

\* one createModernNode call: the definition and the options
Transform(def, o) ==
  /\ graphqlDefinition = def
  /\ modernOpts = o
  /\ modernNode = Pending
  /\ definition = RelayQLFragment("", "Query", <<>>, <<>>)
  /\ options = DefaultOptions
  /\ variableNames = {}
  /\ enableValidation = FALSE
  /\ pc = "idle"
  /\ result = NotPrinted
  /\ document = NoDocument
  /\ scope = <<>>
  /\ phase = "idle"
  /\ visiting = <<>>
  /\ classicAST = NoDocument
  /\ fragmentID = 0
  /\ fragments = <<>>
  /\ variables = <<>>
  /\ argumentDefinitions = NoArgumentDefinitions
  /\ failure = ""
  /\ substitutions = <<>>
  /\ transformedAST = NoObject
  /\ earlier = <<>>

\* named and unnamed definitions, every combination of the development options
ModernInputs ==
  \E def \in {DefinitionNode("FragmentDefinition", "TestFrag", <<>>,
                             <<FieldNode("id", <<>>, <<>>, <<>>)>>),
              DefinitionNode("FragmentDefinition", "TestFrag", <<>>,
                             <<FieldNode("id", <<>>, <<>>, <<>>),
                               FieldNode("name", <<>>, <<>>, <<>>)>>),
              DefinitionNode("OperationDefinition", "TestQuery", <<>>,
                             <<FieldNode("me", <<>>, <<>>, <<>>)>>),
              DefinitionNode("OperationDefinition", "", <<>>,
                             <<FieldNode("me", <<>>, <<>>, <<>>)>>)},
     isDevelopment \in BOOLEAN, isDevVariable \in {<<>>, <<"IS_DEV">>},
     buildCommand \in {<<>>, <<"">>, <<"relay-build">>},
     artifactDirectory \in {<<>>, <<"artifacts">>} :
    Transform(def, [isDevelopment |-> isDevelopment, isDevVariable |-> isDevVariable,
                    buildCommand |-> buildCommand,
                    artifactDirectory |-> artifactDirectory])

\* snake-case mode on and off, against a schema spelled in camel case (User) and
\* one spelled in snake case (SnakeUser): a connection with its edges, and with
\* the page-info field asked for where the mode and the schema agree
SnakeConnectionInputs ==
  \E snakeCase \in BOOLEAN, type \in {"User", "SnakeUser"}, asked \in BOOLEAN,
     deep \in BOOLEAN, gen \in BOOLEAN :
    LET connection == getFieldDefinition(type, "friends").type
        edge == getFieldDefinition(connection, "edges").type
        pageInfo == IF type = "User" THEN "pageInfo" ELSE "page_info"
        agree == snakeCase = (type = "SnakeUser")
        edges == RelayQLField(connection, "edges", <<>>, <<>>,
                              IF deep THEN <<Leaf(edge, "cursor")>> ELSE <<>>)
    IN Start(RelayQLFragment("Frag", type, GenDirectives(gen),
               <<RelayQLField(type, "friends", <<Lit("first")>>, <<>>,
                              <<edges>> \o (IF asked /\ agree
                                            THEN <<Leaf(connection, pageInfo)>> ELSE <<>>))>>),
             [inputArgumentName |-> "", snakeCase |-> snakeCase], {}, TRUE)

\* mutations and subscriptions with payloads spelled either way
SnakeRootCallInputs ==
  \E snakeCase \in BOOLEAN, name \in {"like", "snakeLike"},
     k \in OperationKinds \ {<<"Query", "Query">>}, some \in BOOLEAN :
    Start(Operation(k[1], "Op", k[2], <<>>,
            <<RelayQLField(k[2], name, <<Var("input")>>, <<>>,
                           IF some
                           THEN <<Leaf(getFieldDefinition(k[2], name).type, "user")>>
                           ELSE <<>>)>>),
          [inputArgumentName |-> "", snakeCase |-> snakeCase], {}, TRUE)

(***************************************************************************)
(* The state machine: one print() call, or one createClassicNode call up   *)
(* to the fragment substitutions, per compilation.                         *)
(***************************************************************************)
\* queries whose root field supplies its declared argument twice
QueryArityInputs ==
  \E name \in DOMAIN Schema["Query"].fields, validate \in BOOLEAN :
    \E args \in RepeatedArgs(Schema["Query"].fields[name].declared),
       selections \in RootSelections(Schema["Query"].fields[name].type) :
      \E fields \in WithFillers("Query", RelayQLField("Query", name, args, <<>>, selections)) :
        Start(Operation("Query", "Op", "Query", <<>>, fields), DefaultOptions, {}, validate)

Init ==
  \/ SpreadSequenceInputs
  \/ SpreadDirectiveInputs
  \/ ModernInputs
  \/ SlotCollisionInputs
  \/ FragmentArgumentInputs
  \/ ArgumentDefinitionInputs
  \/ DirectiveInputs
  \/ SnakeConnectionInputs
  \/ SnakeRootCallInputs
  \/ QueryArityInputs
  \/ OperationInputs
  \/ RootCallInputs
  \/ FragmentInputs
  \/ FieldInputs
  \/ ConnectionArgumentInputs
  \/ ConnectionSelectionInputs
  \/ NodeFieldInputs
  \/ NestedNodeFieldInputs

PrintQuery ==
  /\ pc = "ready"
  /\ definition.kind = "Query"
  /\ result' = print(definition, enableValidation)
  /\ pc' = "done"
  /\ UNCHANGED <<definition, options, variableNames, enableValidation, assemblerVars,
               modernVars, earlier>>

PrintFragment ==
  /\ pc = "ready"
  /\ definition.kind = "Fragment"
  /\ result' = print(definition, enableValidation)
  /\ pc' = "done"
  /\ UNCHANGED <<definition, options, variableNames, enableValidation, assemblerVars,
               modernVars, earlier>>

PrintMutation ==
  /\ pc = "ready"
  /\ definition.kind = "Mutation"
  /\ result' = print(definition, enableValidation)
  /\ pc' = "done"
  /\ UNCHANGED <<definition, options, variableNames, enableValidation, assemblerVars,
               modernVars, earlier>>

PrintSubscription ==
  /\ pc = "ready"
  /\ definition.kind = "Subscription"
  /\ result' = print(definition, enableValidation)
  /\ pc' = "done"
  /\ UNCHANGED <<definition, options, variableNames, enableValidation, assemblerVars,
               modernVars, earlier>>

Next ==
  \/ PrintQuery
  \/ PrintFragment
  \/ PrintMutation
  \/ PrintSubscription
  \/ VisitDirective
  \/ VisitFragmentSpread
  \/ VisitVariable
  \/ ReturnClassicAST
  \/ createSubstitutionsForFragmentSpreads
  \/ createFragmentConcreteNode
  \/ createOperationConcreteNode
  \/ createModernNode

Spec == Init /\ [][Next]_vars

(***************************************************************************)
(* Calls one after another.  The printer object is used again: print()     *)
(* gets another definition.  createClassicNode is called again: the        *)
(* locals of createClassicAST are initialised anew.  `earlier` keeps what  *)
(* went into and came out of the calls that have ended.                    *)
(***************************************************************************)
Finished == pc = "done" \/ (pc = "idle" /\ phase \in {"assembled", "raised"})

CallInput ==
  IF pc = "idle" THEN <<"createClassicNode", document, scope>>
  ELSE <<"print", definition, options, variableNames, enableValidation>>

CallOutcome ==
  IF pc = "idle"
  THEN <<phase, failure, classicAST, fragments, variables, argumentDefinitions, substitutions,
         transformedAST>>
  ELSE <<result>>

\* let fragmentID = 0
initialFragmentID_kept(previous) == previous

initialFragmentID(previous) == 0

\* print(definition, substitutions, enableValidation) on the same printer
PrintAgain(def, validate) ==
  /\ Finished
  /\ Len(earlier) < MaxCalls - 1
  /\ earlier' = Append(earlier, <<CallInput, CallOutcome>>)
  /\ definition' = def
  /\ enableValidation' = validate
  /\ pc' = "ready"
  /\ result' = NotPrinted
  /\ UNCHANGED <<options, variableNames, assemblerVars, modernVars>>

\* createClassicNode, up to the first visitor call of createClassicAST
CompileAgain(def, bindings) ==
  /\ Finished
  /\ Len(earlier) < MaxCalls - 1
  /\ earlier' = Append(earlier, <<CallInput, CallOutcome>>)
  /\ document' = def
  /\ scope' = bindings
  /\ phase' = "visit"
  /\ visiting' = VisitorCalls(def, <<>>)
  /\ classicAST' = def
  /\ fragmentID' = initialFragmentID(fragmentID)
  /\ fragments' = <<>>
  /\ variables' = <<>>
  /\ argumentDefinitions' = NoArgumentDefinitions
  /\ failure' = ""
  /\ substitutions' = <<>>
  /\ transformedAST' = NoObject
  /\ pc' = "idle"
  /\ UNCHANGED <<definition, options, variableNames, enableValidation, result, modernVars>>

\* the definitions print() is called with
PrintCalls ==
  {Operation(k[1], "Op", k[2], <<>>, <<Filler(k[2])>>) : k \in OperationKinds}
  \cup {Operation("Query", "Op", "Query", <<>>, <<Filler("Query"), Filler("Query")>>),
        RelayQLFragment("Frag", "User", <<>>, <<Leaf("User", "name")>>)}

\* the definitions createClassicNode is called with
CompileCalls ==
  LET arguments == Arguments(ArgumentNode("size", "Variable", "size"))
      include == DirectiveNode("include", <<ArgumentNode("if", "Variable", "cond")>>)
  IN {DefinitionNode("FragmentDefinition", "Frag_data", <<>>,
                     <<FragmentSpreadNode("Foo", <<arguments>>),
                       FragmentSpreadNode("Bar", <<arguments>>)>>),
      DefinitionNode("FragmentDefinition", "Frag_data", <<>>,
                     <<FragmentSpreadNode("Foo", <<>>),
                       FieldNode("me", <<ArgumentNode("id", "Variable", "id")>>, <<include>>,
                                 <<FragmentSpreadNode("Foo", <<arguments>>)>>)>>),
      DefinitionNode("OperationDefinition", "Frag_data", <<>>,
                     <<FragmentSpreadNode("Foo", <<arguments>>),
                       FragmentSpreadNode("Foo", <<arguments, Mask("BooleanValue", "false")>>)>>),
      DefinitionNode("OperationDefinition", "Frag_data", <<>>,
                     <<FragmentSpreadNode("Foo", <<arguments>>)>>)}

CallScope == [n \in {"Foo", "data"} |-> IF n = "Foo" THEN "Import" ELSE "none"]

PrintNext == \E def \in PrintCalls : PrintAgain(def, TRUE)

CompileNext == \E def \in CompileCalls : CompileAgain(def, CallScope)

InitCalls ==
  \/ \E def \in PrintCalls : Start(def, DefaultOptions, {}, TRUE)
  \/ \E def \in CompileCalls : Assemble(def, CallScope)

NextCalls ==
  \/ PrintQuery
  \/ PrintFragment
  \/ PrintMutation
  \/ PrintSubscription
  \/ VisitDirective
  \/ VisitFragmentSpread
  \/ VisitVariable
  \/ ReturnClassicAST
  \/ createSubstitutionsForFragmentSpreads
  \/ createFragmentConcreteNode
  \/ createOperationConcreteNode
  \/ PrintNext
  \/ CompileNext

SpecCalls == InitCalls /\ [][NextCalls]_vars

(***************************************************************************)
(* Reading the outcome of a compilation.                                   *)
(***************************************************************************)
Done == pc = "done"

Succeeded == pc = "done" /\ ~ Raised(result)

IsOperation == definition.kind \in {"Query", "Mutation", "Subscription"}

IsRootCall == definition.kind \in {"Mutation", "Subscription"}

\* the node whose selection set gives the printed root children, and its type
RootNode == IF IsOperation THEN definition.selections[1] ELSE definition

RootType == RootNode.type

Children(node) == node.children.items

\* every node of a printed tree
RECURSIVE PrintedNodes(_)
PrintedNodes(node) ==
  {node} \cup UNION {PrintedNodes(Children(node)[i]) : i \in 1..Len(Children(node))}

IsGeneratedField(node) ==
  node.kind = "Field" /\ MetadataValue(node.metadata, "isGenerated") = "true"

FieldsNamed(children, name) ==
  {i \in 1..Len(children) : children[i].kind = "Field" /\ children[i].fieldName = name}

GeneratedNamed(children, name) ==
  {i \in FieldsNamed(children, name) : IsGeneratedField(children[i])}

\* the fields a selection set requests directly
RequestsField(node, name) ==
  \E i \in 1..Len(node.selections) :
    node.selections[i].kind = "Field" /\ node.selections[i].name = name

RequestCount(node, name) ==
  Cardinality({i \in 1..Len(node.selections) :
                 node.selections[i].kind = "Field" /\ node.selections[i].name = name})

PrintsEdges(node) ==
  /\ node.kind \in {"Field", "Fragment"}
  /\ isConnection(node.type)
  /\ \E i \in FieldsNamed(Children(node), FIELDS.edges) : ~ IsGeneratedField(Children(node)[i])

C2_AsStated ==
  Succeeded =>
    \A node \in PrintedNodes(result.val) :
      PrintsEdges(node) => Cardinality(FieldsNamed(Children(node), FIELDS.pageInfo)) = 1

(***************************************************************************)
(* C2, amended.  Every printed field or fragment whose type is a           *)
(* connection that has a pageInfo field and whose selection set requests   *)
(* `edges` has `pageInfo` among its printed children: the requested        *)
(* pageInfo fields as they are requested, and exactly one generated        *)
(* pageInfo when none is requested, no generated one otherwise.  So        *)
(* pageInfo is there exactly once when it is requested at most once.       *)
(***************************************************************************)
C2_PageInfoOnce ==
  Succeeded =>
    \A node \in PrintedNodes(result.val) :
      (PrintsEdges(node) /\ hasField(node.type, FIELDS.pageInfo)) =>
        LET children == Children(node)
            generated == GeneratedNamed(children, FIELDS.pageInfo)
            requested == FieldsNamed(children, FIELDS.pageInfo) \ generated
        IN /\ FieldsNamed(children, FIELDS.pageInfo) # {}
           /\ Cardinality(generated) = IF requested = {} THEN 1 ELSE 0

C2_Witness ==
  /\ Succeeded
  /\ \E node \in PrintedNodes(result.val) :
       /\ PrintsEdges(node)
       /\ node.kind = "Field"
       /\ Cardinality(GeneratedNamed(Children(node), FIELDS.pageInfo)) = 1

(***************************************************************************)
(* C3.  As stated: every printed node, the roots of queries, mutations and *)
(* subscriptions included, whose type is identity-capable carries an       *)
(* identity field among its printed children: the `id` field when the type *)
(* has it, otherwise a `... on Node` fragment when the type may implement  *)
(* Node.  printMutation and printSubscription require no identity field    *)
(* and printQuery never generates the Node fragment.                       *)
(***************************************************************************)
CarriesIdentity(node) ==
  LET children == Children(node)
  IN IF hasField(node.type, ID)
     THEN FieldsNamed(children, ID) # {}
     ELSE mayImplement(node.type, "Node") =>
            \E i \in 1..Len(children) :
              /\ children[i].kind = "Fragment"
              /\ children[i].type = "Node"
              /\ FieldsNamed(Children(children[i]), ID) # {}

IsIdFragment(node) == node.kind = "Fragment" /\ node.name = "IdFragment"

Calls == 1..Len(result.log)

\* the i-th printField call raised err itself, before printing any child
RaisedAt(i, err) == result.err = err /\ i = Len(result.log)

Supplies(field, name) == \E k \in 1..Len(field.args) : field.args[k].name = name

SuppliesVariable(field, name) ==
  \E k \in 1..Len(field.args) : field.args[k].name = name /\ field.args[k].isVar

PaginationPairs == {<<"first", "last">>, <<"before", "first">>, <<"after", "last">>}

ConflictingArguments(field) ==
  \E pair \in PaginationPairs :
    /\ Supplies(field, pair[1])
    /\ Supplies(field, pair[2])
    /\ ~ (SuppliesVariable(field, pair[1]) /\ SuppliesVariable(field, pair[2]))

(***************************************************************************)
(* C4.  As stated: printing a connection field raises                      *)
(* ConflictingPaginationArguments exactly when one of the pairs            *)
(* (first, last), (before, first), (after, last) has both members supplied *)
(* and not both of them variables.  Below a fragment that carries          *)
(* @generated the field is not validated and nothing is raised.            *)
(***************************************************************************)
C4_AsStated ==
  Done =>
    \A i \in Calls :
      isConnection(result.log[i].field.type) =>
        (RaisedAt(i, "ConflictingPaginationArguments")
           <=> ConflictingArguments(result.log[i].field))

(***************************************************************************)
(* C4, amended.  Printing a connection field raises                        *)
(* ConflictingPaginationArguments exactly when the field is validated      *)
(* (the nearest enclosing fragment does not carry @generated) and one of   *)
(* the pairs (first, last), (before, first), (after, last) has both        *)
(* members supplied and not both of them variables.                        *)
(***************************************************************************)
C4_ConflictingPagination ==
  Done =>
    \A i \in Calls :
      isConnection(result.log[i].field.type) =>
        (RaisedAt(i, "ConflictingPaginationArguments")
           <=> (ConflictingArguments(result.log[i].field) /\ ~ result.log[i].gen))

C4_Witness ==
  /\ Done
  /\ \E i \in Calls :
       /\ isConnection(result.log[i].field.type)
       /\ Supplies(result.log[i].field, "first")
       /\ SuppliesVariable(result.log[i].field, "last")
       /\ ~ SuppliesVariable(result.log[i].field, "first")
       /\ RaisedAt(i, "ConflictingPaginationArguments")

(***************************************************************************)
(* C5.  printMutation and printSubscription succeed only if the schema     *)
(* declares exactly one argument on the root field, named by the           *)
(* configured inputArgumentName (default `input`), and the call supplies   *)
(* at most one argument; otherwise the argument-shape rule, which runs     *)
(* right after the root-field-count rule, raises                           *)
(* WrongMutationArgumentShape and no node is produced.                     *)
(***************************************************************************)
ConfiguredInputName ==
  IF options.inputArgumentName = "" THEN "input" ELSE options.inputArgumentName

ArgumentShapeOk ==
  /\ Len(RootNode.declared) = 1
  /\ RootNode.declared[1] = ConfiguredInputName
  /\ Len(RootNode.args) <= 1

C5_MutationArgumentShape ==
  (Done /\ IsRootCall) =>
    /\ Succeeded => ArgumentShapeOk
    /\ (~ ArgumentShapeOk /\ result.err # "TooManyRootFields") =>
         /\ result.err = "WrongMutationArgumentShape"
         /\ result.val = NoNode

C5_Witness ==
  /\ Done
  /\ definition.kind = "Subscription"
  /\ Len(RootNode.declared) = 1
  /\ RootNode.declared[1] # ConfiguredInputName
  /\ result.err = "WrongMutationArgumentShape"

(***************************************************************************)
(* C6.  As stated: for every successfully printed mutation or              *)
(* subscription the calls list holds exactly one Call, named after the     *)
(* root field, whose value is CallVariable "input", whatever the           *)
(* printer's substitution-variable table holds.  printVariable turns a     *)
(* name of that table into a substitution reference.                       *)
(***************************************************************************)
C6_AsStated ==
  (Succeeded /\ IsRootCall) =>
    result.val.calls = <<Call(RootNode.name, "", Value("CallVariable", "input"))>>

(***************************************************************************)
(* C6, amended.  For every successfully printed mutation or subscription   *)
(* and every configured inputArgumentName, the calls list holds exactly    *)
(* one Call, named after the root field; its value is CallVariable         *)
(* "input" when `input` is not a name of the printer's                     *)
(* substitution-variable table, and the substitution reference to `input`  *)
(* when it is.                                                             *)
(***************************************************************************)
C6_InputCall ==
  (Succeeded /\ IsRootCall) =>
    /\ Len(result.val.calls) = 1
    /\ result.val.calls[1].kind = "Call"
    /\ result.val.calls[1].name = RootNode.name
    /\ result.val.calls[1].value =
         IF "input" \in variableNames
         THEN Value("Substitution", "input")
         ELSE Value("CallVariable", "input")

C6_Witness ==
  /\ Succeeded
  /\ definition.kind = "Mutation"
  /\ options.inputArgumentName = "data"
  /\ "input" \notin variableNames
  /\ result.val.calls[1].value = Value("CallVariable", "input")

(***************************************************************************)
(* C7.  As stated: printing a field named `node` whose schema declaration  *)
(* has exactly one argument, named `id`, raises MisplacedNodeField when    *)
(* the parent type is not the root query type and does not when it is,     *)
(* wherever the field occurs.  Below a fragment that carries @generated    *)
(* validateField is not called.                                            *)
(***************************************************************************)
IsNodeIdField(field) == field.name = "node" /\ field.declared = <<"id">>

C7_AsStated ==
  Done =>
    \A i \in Calls :
      IsNodeIdField(result.log[i].field) =>
        (RaisedAt(i, "MisplacedNodeField") <=> ~ isQueryType(result.log[i].parentType))

(***************************************************************************)
(* C7, amended.  Printing a field named `node` whose schema declaration    *)
(* has exactly one argument, named `id`, raises MisplacedNodeField when    *)
(* the parent type is not the root query type and the nearest enclosing    *)
(* fragment does not carry @generated; it raises no MisplacedNodeField     *)
(* when the parent type is the root query type or that fragment carries    *)
(* @generated.                                                             *)
(***************************************************************************)
C7_MisplacedNodeField ==
  Done =>
    \A i \in Calls :
      IsNodeIdField(result.log[i].field) =>
        (RaisedAt(i, "MisplacedNodeField")
           <=> (~ isQueryType(result.log[i].parentType) /\ ~ result.log[i].gen))

C7_Witness ==
  /\ Done
  /\ definition.kind = "Query"
  /\ \E i \in Calls :
       /\ IsNodeIdField(result.log[i].field)
       /\ RaisedAt(i, "MisplacedNodeField")

(***************************************************************************)
(* C8.  printQuery, printMutation and printSubscription raise              *)
(* TooManyRootFields exactly when enableValidation is true and the         *)
(* definition's number of top-level fields is not 1.                       *)
(***************************************************************************)
C8_TooManyRootFields ==
  (Done /\ IsOperation) =>
    (result.err = "TooManyRootFields"
       <=> (enableValidation /\ Len(definition.selections) # 1))

C8_Witness ==
  /\ Done
  /\ definition.kind = "Subscription"
  /\ Len(definition.selections) = 2
  /\ enableValidation
  /\ result.err = "TooManyRootFields"

(***************************************************************************)
(* Reading a connection field's selection set.                             *)
(***************************************************************************)
\* the fields selected directly or through inline fragments, in source order
RECURSIVE ThroughInline(_)
ThroughInline(selections) ==
  Concat([k \in 1..Len(selections) |->
            IF selections[k].kind = "Field" THEN <<selections[k]>>
            ELSE IF selections[k].kind = "InlineFragment"
                 THEN ThroughInline(selections[k].selections)
                 ELSE <<>>])

\* the fields selected at any depth, through fields and inline fragments
RECURSIVE AtAnyDepth(_)
AtAnyDepth(selections) ==
  UNION {IF selections[k].kind = "Field"
         THEN {selections[k]} \cup AtAnyDepth(selections[k].selections)
         ELSE IF selections[k].kind = "InlineFragment"
              THEN AtAnyDepth(selections[k].selections)
              ELSE {} : k \in 1..Len(selections)}

PagingNames == {FIELDS.edges, FIELDS.pageInfo}

\* validateConnectionField is called for the field of this printField call
Validated(call) ==
  /\ isConnection(call.field.type)
  /\ ~ call.gen
  /\ \E name \in {"first", "last"} : Contains(call.field.declared, name)

NodeTypeOf(field) ==
  Schema[Schema[field.type].fields[FIELDS.edges].type].fields[FIELDS.node].type

ListOfNodeType(field, subfield) ==
  subfield.list /\ subfield.type = NodeTypeOf(field)

NoLimit(field) ==
  /\ ~ Supplies(field, "first")
  /\ ~ Supplies(field, "last")
  /\ ~ Supplies(field, "find")
  /\ ~ field.pattern

SelectsPaging(field) ==
  \E k \in 1..Len(ThroughInline(field.selections)) :
    ThroughInline(field.selections)[k].name \in PagingNames

\* a list of the node type comes before every edges / pageInfo field
NodesListFirst(field) ==
  LET subfields == ThroughInline(field.selections) IN
  \E k \in 1..Len(subfields) :
    /\ subfields[k].name \notin PagingNames
    /\ ListOfNodeType(field, subfields[k])
    /\ \A j \in 1..(k - 1) : subfields[j].name \notin PagingNames

NodesListThroughInline(field) ==
  LET subfields == ThroughInline(field.selections) IN
  \E k \in 1..Len(subfields) :
    /\ subfields[k].name \notin PagingNames
    /\ ListOfNodeType(field, subfields[k])

(***************************************************************************)
(* C9.  As stated: every connection-typed field that selects edges or      *)
(* pageInfo, directly or through inline fragments, supplies none of        *)
(* first, last, find and is not a pattern, is rejected with                *)
(* MissingPaginationArgument before any child is printed.  A field whose   *)
(* schema declaration has neither first nor last, or which stands below a  *)
(* fragment carrying @generated, is not validated at all.                  *)
(***************************************************************************)
C9_AsStated ==
  Done =>
    \A i \in Calls :
      (/\ isConnection(result.log[i].field.type)
       /\ SelectsPaging(result.log[i].field)
       /\ NoLimit(result.log[i].field))
      => RaisedAt(i, "MissingPaginationArgument")

(***************************************************************************)
(* C9, amended.  Every connection-typed field that is validated (its       *)
(* schema declaration has first or last, and the nearest enclosing         *)
(* fragment does not carry @generated), selects edges or pageInfo directly *)
(* or through inline fragments, supplies none of first, last, find and is  *)
(* not a pattern, is rejected before any child is printed: with            *)
(* MissingPaginationArgument, or with UseEdgesNodeInstead when a list of   *)
(* the connection's node type comes before the first edges / pageInfo      *)
(* field of the traversal.  A field that is not validated is never         *)
(* rejected with MissingPaginationArgument.                                *)
(***************************************************************************)
C9_MissingPaginationArgument ==
  Done =>
    \A i \in Calls :
      (/\ isConnection(result.log[i].field.type)
       /\ SelectsPaging(result.log[i].field)
       /\ NoLimit(result.log[i].field))
      => IF Validated(result.log[i])
         THEN RaisedAt(i, IF NodesListFirst(result.log[i].field)
                          THEN "UseEdgesNodeInstead"
                          ELSE "MissingPaginationArgument")
         ELSE ~ RaisedAt(i, "MissingPaginationArgument")

C9_Witness ==
  /\ Done
  /\ \E i \in Calls :
       /\ Validated(result.log[i])
       /\ NoLimit(result.log[i].field)
       /\ SelectsPaging(result.log[i].field)
       /\ \A k \in 1..Len(result.log[i].field.selections) :
            result.log[i].field.selections[k].kind = "InlineFragment"
       /\ RaisedAt(i, "MissingPaginationArgument")

(***************************************************************************)
(* C10.  As stated: for a validated connection field, a field nested at    *)
(* any depth, through nested field selections as well as inline fragments, *)
(* whose type is a list of the connection's node type triggers             *)
(* UseEdgesNodeInstead.  The traversal does not enter the selections of a  *)
(* field.                                                                  *)
(***************************************************************************)
C10_AsStated ==
  Done =>
    \A i \in Calls :
      (/\ Validated(result.log[i])
       /\ \E subfield \in AtAnyDepth(result.log[i].field.selections) :
            ListOfNodeType(result.log[i].field, subfield))
      => RaisedAt(i, "UseEdgesNodeInstead")

(***************************************************************************)
(* C10, amended.  A validated connection field is rejected with            *)
(* UseEdgesNodeInstead exactly when its pagination arguments do not        *)
(* conflict and a field not named edges or pageInfo, whose type is a list  *)
(* of the connection's node type, is selected directly or through inline   *)
(* fragments (at any depth of inline fragments, but not inside the         *)
(* selections of another field), and no edges / pageInfo field before it   *)
(* in the traversal has raised MissingPaginationArgument.                  *)
(***************************************************************************)
C10_UseEdgesNodeInstead ==
  Done =>
    \A i \in Calls :
      Validated(result.log[i]) =>
        (RaisedAt(i, "UseEdgesNodeInstead")
           <=> /\ ~ ConflictingArguments(result.log[i].field)
               /\ IF NoLimit(result.log[i].field)
                  THEN NodesListFirst(result.log[i].field)
                  ELSE NodesListThroughInline(result.log[i].field))

C10_Witness ==
  /\ Done
  /\ \E i \in Calls :
       /\ Validated(result.log[i])
       /\ Supplies(result.log[i].field, "first")
       /\ Len(result.log[i].field.selections) = 1
       /\ result.log[i].field.selections[1].kind = "InlineFragment"
       /\ Len(result.log[i].field.selections[1].selections) = 1
       /\ result.log[i].field.selections[1].selections[1].kind = "InlineFragment"
       /\ RaisedAt(i, "UseEdgesNodeInstead")

\* a list of the node type below a nested field is printed without complaint
C10_NestedFieldAccepted ==
  /\ Succeeded
  /\ \E i \in Calls :
       /\ Validated(result.log[i])
       /\ \E subfield \in AtAnyDepth(result.log[i].field.selections) :
            ListOfNodeType(result.log[i].field, subfield)

(***************************************************************************)
(* C11.  printFields emits one Field node per requested field in source    *)
(* order, none of them marked isGenerated, then one Field node per         *)
(* requisite name that was not requested, marked isGenerated and           *)
(* isRequisite; a requested field is marked isRequisite exactly when its   *)
(* name is a requisite name.                                               *)
(***************************************************************************)
RequestedFields(node) == SelectSeq(node.selections, LAMBDA s : s.kind = "Field")

PrintedFieldNodes(printed) == SelectSeq(Children(printed), LAMBDA c : c.kind = "Field")

NotRequested(requisite, requested) ==
  SelectSeq(requisite, LAMBDA n : \A i \in 1..Len(requested) : requested[i].name # n)

HasKey(metadata, key) == \E i \in 1..Len(metadata) : metadata[i][1] = key

\* the entries printField computed: the metadata after the entries copied from
\* the node's @relay directive
ComputedMetadata(source, printed) ==
  SubSeq(printed.metadata,
         Len(SelectSeq(relayArguments(source), LAMBDA a : a.name # "variables")) + 1,
         Len(printed.metadata))

\* the requisite names of the selection set of a field
RequisiteOfField(field) ==
  connectionRequisiteFields(RequestedFields(field), field.type, fieldRequisiteFields(field))

\* the requisite names of the selection set printed at the root of the definition
RequisiteOfRoot ==
  connectionRequisiteFields(RequestedFields(RootNode), RootType,
    CASE definition.kind = "Fragment" -> fragmentRequisiteFields(definition)
      [] definition.kind = "Query" -> queryRequisiteFields(RootType)
      [] definition.kind = "Mutation" ->
           SelectSeq(<<FIELDS.clientMutationId>>, LAMBDA n : hasField(RootType, n))
      [] OTHER ->
           SelectSeq(<<FIELDS.clientSubscriptionId, FIELDS.clientMutationId>>,
                     LAMBDA n : hasField(RootType, n)))

\* the Field nodes printed for one selection set, and below them for the
\* selection sets of those fields
RECURSIVE FieldsEmitted(_, _, _)
FieldsEmitted(source, printed, requisite) ==
  LET requested == RequestedFields(source)
      out == PrintedFieldNodes(printed)
      generated == NotRequested(requisite, requested)
      n == Len(requested)
  IN /\ Len(out) = n + Len(generated)
     /\ \A i \in 1..n :
          /\ out[i].fieldName = requested[i].name
          /\ ~ HasKey(ComputedMetadata(requested[i], out[i]), "isGenerated")
          /\ HasKey(ComputedMetadata(requested[i], out[i]), "isRequisite")
               <=> Contains(requisite, requested[i].name)
          /\ HasKey(ComputedMetadata(requested[i], out[i]), "isRequisite")
               => MetadataValue(out[i].metadata, "isRequisite") = "true"
          /\ FieldsEmitted(requested[i], out[i], RequisiteOfField(requested[i]))
     /\ \A j \in 1..Len(generated) :
          /\ out[n + j].fieldName = generated[j]
          /\ MetadataValue(out[n + j].metadata, "isGenerated") = "true"
          /\ MetadataValue(out[n + j].metadata, "isRequisite") = "true"
          /\ FieldsEmitted(generateField(source.type, generated[j]), out[n + j],
                           RequisiteOfField(generateField(source.type, generated[j])))

C11_FieldsInOrder == Succeeded => FieldsEmitted(RootNode, result.val, RequisiteOfRoot)

\* a requisite name requested after another field, and a requisite name generated
C11_Witness ==
  /\ Succeeded
  /\ \E k \in 1..Len(RequestedFields(RootNode)) :
       /\ \E i \in 2..Len(RequestedFields(RequestedFields(RootNode)[k])) :
            Contains(RequisiteOfField(RequestedFields(RootNode)[k]),
                     RequestedFields(RequestedFields(RootNode)[k])[i].name)
       /\ NotRequested(RequisiteOfField(RequestedFields(RootNode)[k]),
                       RequestedFields(RequestedFields(RootNode)[k])) # <<>>

(***************************************************************************)
(* C12.  printSelections wraps the children array in the flatten wrapper   *)
(* exactly when a selection directly in that selection set is a fragment   *)
(* spread; a spread further down leaves the array plain, and an empty      *)
(* result prints no children.                                              *)
(***************************************************************************)
NonFields(node) == SelectSeq(node.selections, LAMBDA s : s.kind # "Field")

PrintedFragmentNodes(printed) == SelectSeq(Children(printed), LAMBDA c : c.kind # "Field")

\* every requested field and inline fragment below a node (the node included),
\* each with the node printed for it
RECURSIVE NodePairs(_, _)
NodePairs(source, printed) ==
  {<<source, printed>>}
  \cup UNION {NodePairs(RequestedFields(source)[i], PrintedFieldNodes(printed)[i]) :
                i \in 1..Len(RequestedFields(source))}
  \cup UNION {NodePairs(NonFields(source)[k], PrintedFragmentNodes(printed)[k]) :
                k \in {k \in 1..Len(NonFields(source)) :
                         NonFields(source)[k].kind = "InlineFragment"}}

HasDirectSpread(node) ==
  \E i \in 1..Len(node.selections) : node.selections[i].kind = "FragmentSpread"

C12_FlattenOnSpread ==
  Succeeded =>
    \A pair \in NodePairs(RootNode, result.val) :
      pair[2].children.wrap =
        IF Len(Children(pair[2])) = 0 THEN "null"
        ELSE IF HasDirectSpread(pair[1]) THEN "flatten" ELSE "array"

\* a selection set without a spread of its own above one that has a spread
C12_Witness ==
  /\ Succeeded
  /\ \E pair \in NodePairs(RootNode, result.val) :
       /\ ~ HasDirectSpread(pair[1])
       /\ \E k \in 1..Len(pair[1].selections) : HasDirectSpread(pair[1].selections[k])
       /\ pair[2].children.wrap = "array"

(***************************************************************************)
(* C13.  As stated: when a @relay argument of a field or fragment is named *)
(* like a metadata key the printer computes for that node, the printed     *)
(* metadata object yields the directive's value for the key.               *)
(***************************************************************************)
\* the nodes printed by printField and printFragment, each with its source
DirectedPairs ==
  NodePairs(RootNode, result.val) \ (IF IsOperation THEN {<<RootNode, result.val>>} ELSE {})

\* the @relay arguments copied into the metadata
CopiedArguments(source) == SelectSeq(relayArguments(source), LAMBDA a : a.name # "variables")

\* the copied arguments named like an entry the printer computed for the node
Collisions(source, printed) ==
  {i \in 1..Len(CopiedArguments(source)) :
     HasKey(ComputedMetadata(source, printed), CopiedArguments(source)[i].name)}

C13_AsStated ==
  Succeeded =>
    \A pair \in DirectedPairs :
      \A i \in Collisions(pair[1], pair[2]) :
        MetadataValue(pair[2].metadata, CopiedArguments(pair[1])[i].name)
          = CopiedArguments(pair[1])[i].value

(***************************************************************************)
(* C13.  The entries copied from the @relay directive come first in the    *)
(* metadata object and the computed entries follow, so for a key the       *)
(* printer computes the object yields the computed value; the directive's  *)
(* value is yielded for the keys the printer computes no entry for.        *)
(***************************************************************************)
C13_ComputedLast ==
  Succeeded =>
    \A pair \in DirectedPairs :
      /\ SubSeq(pair[2].metadata, 1, Len(CopiedArguments(pair[1])))
           = [i \in 1..Len(CopiedArguments(pair[1])) |->
                <<CopiedArguments(pair[1])[i].name, CopiedArguments(pair[1])[i].value>>]
      /\ pair[1].kind = "Field" =>
           /\ HasKey(ComputedMetadata(pair[1], pair[2]), "isPlural") <=> pair[1].list
           /\ HasKey(ComputedMetadata(pair[1], pair[2]), "isAbstract")
                <=> isAbstract(pair[1].type)
      /\ pair[1].kind # "Field" =>
           ComputedMetadata(pair[1], pair[2])
             = << <<"isAbstract", boolLiteral(isAbstract(pair[1].type))>>,
                  <<"isTrackingEnabled",
                    boolLiteral(hasSelectVariables(relayArguments(pair[1])))>> >>
      /\ \A i \in 1..Len(pair[2].metadata) :
           MetadataValue(pair[2].metadata, pair[2].metadata[i][1])
             = IF HasKey(ComputedMetadata(pair[1], pair[2]), pair[2].metadata[i][1])
               THEN MetadataValue(ComputedMetadata(pair[1], pair[2]), pair[2].metadata[i][1])
               ELSE MetadataValue(SubSeq(pair[2].metadata, 1, Len(CopiedArguments(pair[1]))),
                                  pair[2].metadata[i][1])

\* a field and a fragment whose @relay argument disagrees with the computed entry
C13_Witness ==
  /\ Succeeded
  /\ \E pair \in DirectedPairs :
       /\ pair[1].kind = "Field"
       /\ \E i \in Collisions(pair[1], pair[2]) :
            MetadataValue(pair[2].metadata, CopiedArguments(pair[1])[i].name)
              # CopiedArguments(pair[1])[i].value
  /\ \E pair \in DirectedPairs :
       /\ pair[1].kind = "Fragment"
       /\ \E i \in Collisions(pair[1], pair[2]) :
            MetadataValue(pair[2].metadata, CopiedArguments(pair[1])[i].name)
              # CopiedArguments(pair[1])[i].value

(***************************************************************************)
(* C14.  The @relay directive of a field or fragment is left out of the    *)
(* node's printed directives, every other directive is printed once in     *)
(* source order; every @relay argument other than `variables` is copied    *)
(* into the node's metadata; a @relay argument bound to a variable makes   *)
(* printing raise, and no node is returned.                                *)
(***************************************************************************)
\* the fields and inline fragments below a node, the node included
RECURSIVE SourceNodes(_)
SourceNodes(node) ==
  {node} \cup UNION {SourceNodes(node.selections[i]) :
                       i \in {i \in 1..Len(node.selections) :
                                node.selections[i].kind \in {"Field", "InlineFragment"}}}

\* the nodes of the definition that printField and printFragment are given
DirectedSources == SourceNodes(RootNode) \ (IF IsOperation THEN {RootNode} ELSE {})

OtherDirectives(source) == SelectSeq(source.directives, LAMBDA d : d.name # "relay")

HasVariableRelayArgument(source) ==
  \E i \in 1..Len(relayArguments(source)) : relayArguments(source)[i].isVar

C14_RelayDirectiveConsumed ==
  /\ Succeeded =>
       \A pair \in DirectedPairs :
         /\ Len(pair[2].directives) = Len(OtherDirectives(pair[1]))
         /\ \A i \in 1..Len(pair[2].directives) :
              /\ pair[2].directives[i].name # "relay"
              /\ pair[2].directives[i] = printDirective(OtherDirectives(pair[1])[i])
         /\ \A i \in 1..Len(relayArguments(pair[1])) :
              relayArguments(pair[1])[i].name # "variables" =>
                \E j \in 1..Len(pair[2].metadata) :
                  pair[2].metadata[j] = <<relayArguments(pair[1])[i].name,
                                          relayArguments(pair[1])[i].value>>
  /\ (Done /\ \E source \in DirectedSources : HasVariableRelayArgument(source)) =>
       /\ Raised(result)
       /\ result.val = NoNode

\* a printed field whose @relay directive, with a `variables` argument and a
\* scalar one, stands after another directive
C14_Witness ==
  /\ Succeeded
  /\ \E pair \in DirectedPairs :
       /\ pair[1].kind = "Field"
       /\ Len(pair[1].directives) > 1
       /\ pair[1].directives[2].name = "relay"
       /\ hasSelectVariables(relayArguments(pair[1]))
       /\ CopiedArguments(pair[1]) # <<>>
       /\ pair[2].directives # <<>>

\* printing stopped at a @relay argument bound to a variable
C14_RaisedOnVariable ==
  /\ Done
  /\ result.err = "RelayDirectiveVariableArgument"
  /\ \E source \in DirectedSources :
       HasVariableRelayArgument(source) /\ source.kind = "Field"

(***************************************************************************)
(* Reading a createClassicAST call.                                        *)
(***************************************************************************)
\* every visitor call of the visit, in order, and the number of the current one
AllCalls == VisitorCalls(document, <<>>)

Position == Len(AllCalls) - Len(visiting) + 1

Normalized == phase \in {"returned", "resolved"}

IsSpreadPath(path) ==
  /\ path # <<>>
  /\ path[Len(path)][1] = "selections"
  /\ NodeAt(document, path).kind = "FragmentSpread"

\* the spreads of the document, in visit order
SpreadCalls == {j \in 1..Len(AllCalls) : IsSpreadPath(AllCalls[j])}

SpreadOf(j) == NodeAt(document, AllCalls[j])

IsArgumentsSpread(node) ==
  Len(node.directives) = 1 /\ node.directives[1].name = "arguments"

IsBareSpread(node) == Len(node.directives) = 0

IsMaskSpread(node) ==
  /\ Len(node.directives) = 1
  /\ node.directives[1].name = "relay"
  /\ Len(node.directives[1].arguments) = 1
  /\ node.directives[1].arguments[1].name = "mask"

ArgumentsSpreads == {j \in SpreadCalls : IsArgumentsSpread(SpreadOf(j))}

\* k of the k-th @arguments spread
Ordinal(j) == Cardinality({i \in ArgumentsSpreads : i <= j})

\* the visitor is entering spread j and returns from it
VisitsSpread(j) ==
  /\ phase = "visit"
  /\ visiting # <<>>
  /\ j = Position
  /\ j \in SpreadCalls
  /\ phase' = "visit"

\* the visitor is entering spread j, and returns from it or raises
EntersSpread(j) ==
  /\ phase = "visit"
  /\ visiting # <<>>
  /\ j = Position
  /\ j \in SpreadCalls
  /\ <<phase, visiting>>' # <<phase, visiting>>

(***************************************************************************)
(* C15.  The k-th spread with a single @arguments directive is given the   *)
(* slot <fragment>_args<k>, with mask = true and its argument-binding map, *)
(* and the spread of the rewritten tree targets that slot and has no       *)
(* directives.                                                             *)
(***************************************************************************)
NumberedSlot(j) == SpreadOf(j).name \o "_args" \o ToString(Ordinal(j))

C15_Given ==
  \A j \in ArgumentsSpreads :
    VisitsSpread(j) =>
      /\ HasOwn(fragments', NumberedSlot(j))
      /\ Get(fragments', NumberedSlot(j)).name = SpreadOf(j).name
      /\ Get(fragments', NumberedSlot(j)).isMasked
      /\ Get(fragments', NumberedSlot(j)).args
           = <<fragmentArgumentsObject(SpreadOf(j).directives[1].arguments)>>
      /\ NodeAt(classicAST', AllCalls[j]) = FragmentSpreadNode(NumberedSlot(j), <<>>)

C15_Rewritten ==
  Normalized =>
    \A j \in ArgumentsSpreads :
      NodeAt(classicAST, AllCalls[j]) = FragmentSpreadNode(NumberedSlot(j), <<>>)

C15_ArgumentsSlots == [][C15_Given]_vars /\ []C15_Rewritten

\* two @arguments spreads on Foo and no other: Foo_args1 and Foo_args2
C15_Witness ==
  /\ Normalized
  /\ Cardinality(ArgumentsSpreads) = 2
  /\ \A j \in ArgumentsSpreads : SpreadOf(j).name = "Foo"
  /\ HasOwn(fragments, "Foo_args1")
  /\ HasOwn(fragments, "Foo_args2")
  /\ Get(fragments, "Foo_args2").args # <<>>

(***************************************************************************)
(* C16.  As stated: the number in the slot name of an @arguments spread    *)
(* counts the @arguments spreads on the same fragment only, so the first   *)
(* such spread on Bar gets Bar_args1 even after an @arguments spread on    *)
(* Foo.                                                                    *)
(***************************************************************************)
\* the @arguments spreads visited before spread j, on its fragment and on others
EarlierOnSame(j) == {i \in ArgumentsSpreads : i < j /\ SpreadOf(i).name = SpreadOf(j).name}

EarlierOnOthers(j) == {i \in ArgumentsSpreads : i < j /\ SpreadOf(i).name # SpreadOf(j).name}

C16_AsStated ==
  Normalized =>
    \A j \in ArgumentsSpreads :
      NodeAt(classicAST, AllCalls[j]).name
        = SpreadOf(j).name \o "_args" \o ToString(Cardinality(EarlierOnSame(j)) + 1)

(***************************************************************************)
(* C16.  One counter numbers all @arguments spreads of a definition: the   *)
(* first such spread on Bar, visited after n such spreads on other         *)
(* fragments, gets Bar_args<n+1>.                                          *)
(***************************************************************************)
C16_SharedCounter ==
  Normalized =>
    /\ fragmentID = Cardinality(ArgumentsSpreads)
    /\ \A j \in ArgumentsSpreads :
         EarlierOnSame(j) = {} =>
           NodeAt(classicAST, AllCalls[j]).name
             = SpreadOf(j).name \o "_args" \o ToString(Cardinality(EarlierOnOthers(j)) + 1)

\* `...Foo @arguments(...)` then the first `...Bar @arguments(...)`
C16_Witness ==
  /\ Normalized
  /\ \E j \in ArgumentsSpreads :
       /\ SpreadOf(j).name = "Bar"
       /\ EarlierOnSame(j) = {}
       /\ EarlierOnOthers(j) # {}
       /\ NodeAt(classicAST, AllCalls[j]).name = "Bar_args2"

(***************************************************************************)
(* C17.  One or more directive-less spreads `...Foo`, Foo being the slot   *)
(* of no other kind of spread, yield exactly one slot named Foo, with      *)
(* target Foo, mask = true and no argument binding; the resolver turns it  *)
(* into one getFragment call taking the property name and no argument map. *)
(***************************************************************************)
\* the slot name a spread is recorded under
SlotNameOf(j) ==
  IF IsArgumentsSpread(SpreadOf(j)) THEN NumberedSlot(j) ELSE SpreadOf(j).name

\* the fragments that have directive-less spreads, and only such spreads, on their slot
BareOnly ==
  {SpreadOf(j).name : j \in {i \in SpreadCalls : IsBareSpread(SpreadOf(i))}}
  \ {SlotNameOf(j) : j \in {i \in SpreadCalls : ~ IsBareSpread(SpreadOf(i))}}

SlotsNamed(name) == {i \in 1..Len(fragments) : fragments[i][1] = name}

DeclarationsNamed(name) == {i \in 1..Len(substitutions) : substitutions[i].name = name}

C17_BareSpread ==
  \A name \in BareOnly :
    /\ Normalized =>
         /\ Cardinality(SlotsNamed(name)) = 1
         /\ Get(fragments, name) = Fragment(name, <<>>, TRUE)
    /\ phase = "resolved" =>
         /\ Cardinality(DeclarationsNamed(name)) = 1
         /\ \A i \in DeclarationsNamed(name) :
              /\ substitutions[i].kind = "getFragment"
              /\ substitutions[i].module = getFragmentNameParts(name)[1]
              /\ substitutions[i].args = <<getFragmentNameParts(name)[2]>>

\* `...Foo` twice, resolved
C17_Witness ==
  /\ phase = "resolved"
  /\ "Foo" \in BareOnly
  /\ Cardinality({j \in SpreadCalls : SpreadOf(j).name = "Foo"}) >= 2
  /\ Cardinality(DeclarationsNamed("Foo")) = 1

(***************************************************************************)
(* C18.  A spread whose only directive is @relay: with exactly one         *)
(* argument, named mask, it is recorded under the fragment's own name and  *)
(* unmasked exactly when the value is the boolean false; with no argument, *)
(* several arguments or an argument of another name the visitor raises.    *)
(***************************************************************************)
IsRelaySpread(node) == Len(node.directives) = 1 /\ node.directives[1].name = "relay"

IsBooleanFalse(value) == value.kind = "BooleanValue" /\ value.value = "false"

C18_Given ==
  \A j \in {i \in SpreadCalls : IsRelaySpread(SpreadOf(i))} :
    EntersSpread(j) =>
      IF IsMaskSpread(SpreadOf(j))
      THEN /\ phase' = "visit"
           /\ HasOwn(fragments', SpreadOf(j).name)
           /\ Get(fragments', SpreadOf(j).name).name = SpreadOf(j).name
           /\ Get(fragments', SpreadOf(j).name).isMasked
                = ~ IsBooleanFalse(SpreadOf(j).directives[1].arguments[1].value)
           /\ NodeAt(classicAST', AllCalls[j]) = FragmentSpreadNode(SpreadOf(j).name, <<>>)
      ELSE /\ phase' = "raised"
           /\ failure' = "InvalidRelaySpreadDirective"

C18_MaskDirective == [][C18_Given]_vars

\* @relay(mask: "false"), a string: the slot stays masked
C18_Witness ==
  /\ Normalized
  /\ \E j \in SpreadCalls :
       /\ IsMaskSpread(SpreadOf(j))
       /\ SpreadOf(j).directives[1].arguments[1].value.kind = "StringValue"
       /\ SpreadOf(j).directives[1].arguments[1].value.value = "false"
       /\ Get(fragments, SpreadOf(j).name).isMasked

\* @relay(mask: false): the slot is unmasked
C18_Unmasked ==
  /\ Normalized
  /\ \E j \in SpreadCalls :
       /\ IsMaskSpread(SpreadOf(j))
       /\ IsBooleanFalse(SpreadOf(j).directives[1].arguments[1].value)
       /\ ~ Get(fragments, SpreadOf(j).name).isMasked

(***************************************************************************)
(* C19.  A spread with more than one directive, whatever they are, and a   *)
(* spread with exactly one directive other than @arguments and @relay make *)
(* the visitor raise; createClassicAST then returns no rewritten tree and  *)
(* no slot table.                                                          *)
(***************************************************************************)
IsRejectedSpread(node) ==
  \/ Len(node.directives) > 1
  \/ Len(node.directives) = 1 /\ node.directives[1].name \notin {"arguments", "relay"}

C19_Given ==
  \A j \in {i \in SpreadCalls : IsRejectedSpread(SpreadOf(i))} :
    EntersSpread(j) =>
      /\ phase' = "raised"
      /\ failure' = IF Len(SpreadOf(j).directives) > 1
                    THEN "ConflictingSpreadDirectives" ELSE "UnsupportedSpreadDirective"

C19_NothingReturned ==
  (phase # "visit" /\ \E j \in SpreadCalls : IsRejectedSpread(SpreadOf(j))) =>
    /\ phase = "raised"
    /\ classicAST = NoDocument
    /\ fragments = <<>>
    /\ substitutions = <<>>

C19_RejectedSpread == [][C19_Given]_vars /\ []C19_NothingReturned

\* @arguments and @relay(mask: false) on one spread, after a spread that was recorded
C19_Witness ==
  /\ phase = "raised"
  /\ failure = "ConflictingSpreadDirectives"
  /\ fragments = <<>>
  /\ \E j \in SpreadCalls :
       /\ Len(SpreadOf(j).directives) = 2
       /\ \A i \in 1..2 : SpreadOf(j).directives[i].name \in {"arguments", "relay"}
       /\ \E i \in SpreadCalls : i < j

(***************************************************************************)
(* C20.  Two or more @argumentDefinitions directives in a definition make  *)
(* createClassicAST raise DuplicateArgumentDefinitions, unless a spread    *)
(* entered before the second of them has raised already; exactly one is    *)
(* returned as the formal-argument list and is absent from the rewritten   *)
(* tree; with none the formal-argument list is absent.                     *)
(***************************************************************************)
\* the @argumentDefinitions directives the Directive visitor is called for
DefinitionCalls ==
  {j \in 1..Len(AllCalls) :
     /\ AllCalls[j][Len(AllCalls[j])][1] = "directives"
     /\ NodeAt(document, AllCalls[j]).name = "argumentDefinitions"}

\* the second of them
SecondDefinition ==
  CHOOSE j \in DefinitionCalls : Cardinality({i \in DefinitionCalls : i < j}) = 1

RaisesBefore(j) == \E i \in SpreadCalls : i < j /\ spreadError(SpreadOf(i).directives) # ""

RECURSIVE DirectiveNames(_)
DirectiveNames(node) ==
  {node.directives[i].name : i \in 1..Len(node.directives)}
  \cup UNION {DirectiveNames(node.selections[i]) : i \in 1..Len(node.selections)}

C20_ArgumentDefinitions ==
  (document # NoDocument /\ phase # "visit") =>
    CASE Cardinality(DefinitionCalls) >= 2 ->
           /\ phase = "raised"
           /\ ~ RaisesBefore(SecondDefinition) => failure = "DuplicateArgumentDefinitions"
      [] Cardinality(DefinitionCalls) = 1 ->
           Normalized =>
             /\ argumentDefinitions.present
             /\ \A j \in DefinitionCalls :
                  argumentDefinitions.list = NodeAt(document, AllCalls[j]).arguments
             /\ "argumentDefinitions" \notin DirectiveNames(classicAST)
      [] OTHER ->
           Normalized => argumentDefinitions = NoArgumentDefinitions

\* `@argumentDefinitions` with no argument, then a second one
C20_Witness ==
  /\ phase = "raised"
  /\ failure = "DuplicateArgumentDefinitions"
  /\ Cardinality(DefinitionCalls) >= 2
  /\ \E j \in DefinitionCalls :
       j < SecondDefinition /\ NodeAt(document, AllCalls[j]).arguments = <<>>

\* exactly one, on a field: captured and removed
C20_Captured ==
  /\ Normalized
  /\ Cardinality(DefinitionCalls) = 1
  /\ argumentDefinitions.list # <<>>
  /\ "include" \in DirectiveNames(classicAST)

(***************************************************************************)
(* C21.  After createClassicAST the variable table holds the variables of  *)
(* field arguments, of the directives that pass through and of the         *)
(* @arguments bindings of spreads, and no variable that occurs only in a   *)
(* directive the visitors drop (@connection, @argumentDefinitions, the     *)
(* @relay of a spread).                                                    *)
(***************************************************************************)
VariablesOf(arguments) ==
  {arguments[i].value.value :
     i \in {k \in 1..Len(arguments) : arguments[k].value.kind = "Variable"}}

\* every variable the definition refers to
RECURSIVE AllVariables(_)
AllVariables(node) ==
  VariablesOf(node.arguments)
  \cup UNION {VariablesOf(node.directives[i].arguments) : i \in 1..Len(node.directives)}
  \cup UNION {AllVariables(node.selections[i]) : i \in 1..Len(node.selections)}

\* the variables outside dropped directives
RECURSIVE PassedVariables(_)
PassedVariables(node) ==
  IF node.kind = "FragmentSpread"
  THEN IF IsArgumentsSpread(node) THEN VariablesOf(node.directives[1].arguments) ELSE {}
  ELSE VariablesOf(node.arguments)
       \cup UNION {VariablesOf(node.directives[i].arguments) :
                     i \in {k \in 1..Len(node.directives) :
                              node.directives[k].name
                                \notin {"connection", "argumentDefinitions"}}}
       \cup UNION {PassedVariables(node.selections[i]) : i \in 1..Len(node.selections)}

C21_AsStated == Normalized => AllVariables(document) \subseteq Range(variables)

C21_VisitedVariables == Normalized => Range(variables) = PassedVariables(document)

\* @include(if: $cond) and @connection(key: $key): cond is recorded, key is not
C21_Witness ==
  /\ Normalized
  /\ "key" \in AllVariables(document)
  /\ "key" \notin Range(variables)
  /\ "cond" \in Range(variables)

(***************************************************************************)
(* C22.  A masked slot never makes createSubstitutionsForFragmentSpreads   *)
(* raise, whatever is bound at the tagged literal: the error is raised for *)
(* unmasked slots only, and a masked slot is declared as a getFragment     *)
(* call taking the property name and, when the slot has one, the           *)
(* argument-binding map.                                                   *)
(***************************************************************************)
ModuleOf(i) == getFragmentNameParts(fragments[i][2].name)[1]

PropertyOf(i) == getFragmentNameParts(fragments[i][2].name)[2]

Bound(name) == getBindingAtNode(name) # "none"

MaskedSlots == {i \in 1..Len(fragments) : fragments[i][2].isMasked}

UnmaskedSlots == {i \in 1..Len(fragments) : ~ fragments[i][2].isMasked}

Unbound(slots) == {i \in slots : ~ Bound(ModuleOf(i)) /\ ~ Bound(PropertyOf(i))}

Unresolved == phase = "raised" /\ failure = "UnresolvedFragmentReference"

C22_AsStated == phase = "resolved" => Unbound(MaskedSlots) = {}

C22_MaskedNeverFails ==
  /\ Unresolved => Unbound(UnmaskedSlots) # {}
  /\ phase = "resolved" =>
       /\ Len(substitutions) = Len(fragments)
       /\ \A i \in MaskedSlots :
            /\ substitutions[i].name = fragments[i][1]
            /\ substitutions[i].kind = "getFragment"
            /\ substitutions[i].module = ModuleOf(i)
            /\ substitutions[i].args = <<PropertyOf(i)>> \o fragments[i][2].args

\* a masked slot with an argument-binding map, nothing bound at the tagged literal
C22_Witness ==
  /\ phase = "resolved"
  /\ \E i \in Unbound(MaskedSlots) :
       /\ fragments[i][2].args # <<>>
       /\ Len(substitutions[i].args) = 2

(***************************************************************************)
(* C23.  createSubstitutionsForFragmentSpreads raises exactly when some    *)
(* unmasked slot has neither its module name nor its property name bound;  *)
(* otherwise an unmasked slot reads the fragment from the local binding of *)
(* the property name when there is one, also when the module is bound, and *)
(* from the module/property lookup with its fallback only when not.        *)
(***************************************************************************)
C23_UnmaskedSlot ==
  /\ phase = "resolved" => Unbound(UnmaskedSlots) = {}
  /\ Unresolved => Unbound(UnmaskedSlots) # {} /\ substitutions = <<>>
  /\ phase = "resolved" =>
       \A i \in UnmaskedSlots :
         /\ substitutions[i].name = fragments[i][1]
         /\ substitutions[i].kind = "__getClassicFragment"
         /\ substitutions[i].module = ModuleOf(i)
         /\ substitutions[i].prop = PropertyOf(i)
         /\ substitutions[i].container = IF Bound(PropertyOf(i)) THEN "local" ELSE "module"

\* module and property name both bound: the local binding is read
C23_Witness ==
  /\ phase = "resolved"
  /\ \E i \in UnmaskedSlots :
       /\ Bound(ModuleOf(i))
       /\ Bound(PropertyOf(i))
       /\ substitutions[i].container = "local"

\* only the module bound: the module/property lookup
C23_ModuleLookup ==
  /\ phase = "resolved"
  /\ \E i \in UnmaskedSlots :
       /\ Bound(ModuleOf(i))
       /\ ~ Bound(PropertyOf(i))
       /\ substitutions[i].container = "module"

\* neither bound: raised
C23_Raised == Unresolved /\ Unbound(UnmaskedSlots) # {}

(***************************************************************************)
(* C24.  A call made again with the same input, after any calls with other *)
(* inputs, ends as it did before: the same slot names, slot table and      *)
(* printed node, or the same error; the numbering of the argument slots    *)
(* starts anew in every createClassicAST call.                             *)
(***************************************************************************)
C24_Deterministic ==
  Finished =>
    /\ \A k \in 1..Len(earlier) : earlier[k][1] = CallInput => earlier[k][2] = CallOutcome
    /\ (pc = "idle" /\ Normalized) => fragmentID = Cardinality(ArgumentsSpreads)

\* the same definition assembled twice, another call in between, slots Foo_args1, Bar_args2
C24_Witness ==
  /\ Finished
  /\ pc = "idle"
  /\ Len(earlier) = 2
  /\ earlier[1][1] = CallInput
  /\ earlier[2][1] # CallInput
  /\ HasOwn(fragments, "Bar_args2")

(***************************************************************************)
(* C25.  In snake-case mode every well-known field name is the name with   *)
(* each upper-case letter X replaced by _x, and that is the name looked up *)
(* in the schema and injected as a requisite field; without the mode the   *)
(* names are used as they are; a name without upper-case letters is the    *)
(* same in both modes.                                                     *)
(***************************************************************************)
CamelNames ==
  [ typename             |-> "__typename",
    clientMutationId     |-> "clientMutationId",
    clientSubscriptionId |-> "clientSubscriptionId",
    cursor               |-> "cursor",
    edges                |-> "edges",
    hasNextPage          |-> "hasNextPage",
    hasPreviousPage      |-> "hasPreviousPage",
    node                 |-> "node",
    pageInfo             |-> "pageInfo" ]

SnakeNames ==
  [ typename             |-> "__typename",
    clientMutationId     |-> "client_mutation_id",
    clientSubscriptionId |-> "client_subscription_id",
    cursor               |-> "cursor",
    edges                |-> "edges",
    hasNextPage          |-> "has_next_page",
    hasPreviousPage      |-> "has_previous_page",
    node                 |-> "node",
    pageInfo             |-> "page_info" ]

Expected(key) == IF options.snakeCase THEN SnakeNames[key] ELSE CamelNames[key]

HasChild(node, name) == FieldsNamed(Children(node), name) # {}

C25_SnakeCase ==
  /\ \A key \in DOMAIN Spelling : FIELDS[key] = Expected(key)
  /\ Succeeded =>
       /\ \A node \in PrintedNodes(result.val) :
            /\ PrintsEdges(node) =>
                 (HasChild(node, Expected("pageInfo"))
                    <=> hasField(node.type, Expected("pageInfo")))
            /\ (node.kind = "Field" /\ isConnectionPageInfo(node.type)) =>
                 /\ HasChild(node, Expected("hasNextPage"))
                 /\ HasChild(node, Expected("hasPreviousPage"))
            /\ (node.kind = "Field" /\ isConnectionEdge(node.type)) =>
                 /\ HasChild(node, Expected("cursor"))
                 /\ HasChild(node, Expected("node"))
       /\ IsRootCall =>
            (HasChild(result.val, Expected("clientMutationId"))
               <=> hasField(RootType, Expected("clientMutationId")))
       /\ definition.kind = "Subscription" =>
            (HasChild(result.val, Expected("clientSubscriptionId"))
               <=> hasField(RootType, Expected("clientSubscriptionId")))

\* snake-case mode, snake-case schema: page_info is injected, with has_next_page below it
C25_Witness ==
  /\ Succeeded
  /\ options.snakeCase
  /\ \E node \in PrintedNodes(result.val) :
       /\ PrintsEdges(node)
       /\ \E i \in GeneratedNamed(Children(node), "page_info") :
            HasChild(Children(node)[i], "has_previous_page")

\* snake-case mode, camel-case schema: nothing is injected for pageInfo
C25_Mismatch ==
  /\ Succeeded
  /\ options.snakeCase
  /\ \E node \in PrintedNodes(result.val) :
       /\ PrintsEdges(node)
       /\ hasField(node.type, "pageInfo")
       /\ ~ HasChild(node, "pageInfo")

\* snake-case mode: client_mutation_id is injected into a mutation's payload
C25_RootCall ==
  /\ Succeeded
  /\ options.snakeCase
  /\ definition.kind = "Mutation"
  /\ GeneratedNamed(Children(result.val), "client_mutation_id") # {}

(***************************************************************************)
(* C27.  enableValidation = false suppresses only the root-field-count     *)
(* rule.  With enableValidation false no print raises TooManyRootFields;   *)
(* a query whose root field supplies more than one argument still raises   *)
(* (InvalidRootFieldArity, unless a rule of the root field's selections    *)
(* raised first), and a mutation or subscription whose root field has the  *)
(* wrong argument shape still raises WrongMutationArgumentShape.  With     *)
(* enableValidation true the same two rules raise whenever the count rule  *)
(* does not.                                                               *)
(***************************************************************************)
RootRuleErrors == {"TooManyRootFields", "InvalidRootFieldArity", "WrongMutationArgumentShape"}

CountRuleRaises == enableValidation /\ Len(definition.selections) # 1

C27_OnlyCountRuleSuppressed ==
  (Done /\ IsOperation) =>
    /\ ~ enableValidation => result.err # "TooManyRootFields"
    /\ (definition.kind = "Query" /\ Len(RootNode.args) > 1 /\ ~ CountRuleRaises) =>
         /\ Raised(result)
         /\ result.err \in RootRuleErrors => result.err = "InvalidRootFieldArity"
    /\ (IsRootCall /\ ~ ArgumentShapeOk /\ ~ CountRuleRaises) =>
         result.err = "WrongMutationArgumentShape"

\* validation off, two root fields: the count rule is silent, the arity rule raises
C27_Witness ==
  /\ Done
  /\ ~ enableValidation
  /\ definition.kind = "Query"
  /\ Len(definition.selections) = 2
  /\ Len(RootNode.args) > 1
  /\ result.err = "InvalidRootFieldArity"

\* validation off, two root fields: the argument-shape rule raises
C27_RootCall ==
  /\ Done
  /\ ~ enableValidation
  /\ definition.kind = "Mutation"
  /\ Len(definition.selections) = 2
  /\ Len(RootNode.args) > 1
  /\ result.err = "WrongMutationArgumentShape"

(***************************************************************************)
(* C28.  The slot table holds at most one slot per slot name.  When        *)
(* several spreads of a definition map to one slot name, the slot's        *)
(* target, argument binding and mask flag are those of the last such       *)
(* spread visited; the table has as many slots as there are slot names,    *)
(* never more than there are spreads; every spread of the rewritten tree   *)
(* carries its slot name, and the one declaration the resolver emits for   *)
(* the name follows the last spread's mask flag.                           *)
(***************************************************************************)
\* the slot spread j writes
WrittenBy(j) ==
  Fragment(SpreadOf(j).name,
           IF IsArgumentsSpread(SpreadOf(j))
           THEN <<fragmentArgumentsObject(SpreadOf(j).directives[1].arguments)>>
           ELSE <<>>,
           IF IsMaskSpread(SpreadOf(j))
           THEN ~ IsBooleanFalse(SpreadOf(j).directives[1].arguments[1].value)
           ELSE TRUE)

SlotNames == {SlotNameOf(j) : j \in SpreadCalls}

SpreadsOnSlot(name) == {j \in SpreadCalls : SlotNameOf(j) = name}

LastOnSlot(name) == CHOOSE j \in SpreadsOnSlot(name) : \A i \in SpreadsOnSlot(name) : i <= j

C28_LastSpreadWins ==
  Normalized =>
    /\ Len(fragments) = Cardinality(SlotNames)
    /\ Len(fragments) <= Cardinality(SpreadCalls)
    /\ \A j \in SpreadCalls : NodeAt(classicAST, AllCalls[j]).name = SlotNameOf(j)
    /\ \A name \in SlotNames :
         /\ Cardinality(SlotsNamed(name)) = 1
         /\ Get(fragments, name) = WrittenBy(LastOnSlot(name))
         /\ phase = "resolved" =>
              /\ Cardinality(DeclarationsNamed(name)) = 1
              /\ \A i \in DeclarationsNamed(name) :
                   substitutions[i].kind = "getFragment"
                     <=> WrittenBy(LastOnSlot(name)).isMasked

\* `...Foo @arguments(size: $size)` then a bare `...Foo_args1`: one slot Foo_args1,
\* whose target is Foo_args1 and whose argument binding is gone
C28_Witness ==
  /\ phase = "resolved"
  /\ \E i \in ArgumentsSpreads, j \in SpreadCalls :
       /\ i < j
       /\ SlotNameOf(i) = "Foo_args1"
       /\ IsBareSpread(SpreadOf(j))
       /\ SpreadOf(j).name = "Foo_args1"
       /\ LastOnSlot("Foo_args1") = j
  /\ Get(fragments, "Foo_args1") = Fragment("Foo_args1", <<>>, TRUE)
  /\ Len(fragments) < Cardinality(SpreadCalls)

\* `...Foo` then `...Foo @relay(mask: false)`: the one declaration is unmasked
C28_MaskOfLast ==
  /\ phase = "resolved"
  /\ \E i, j \in SpreadsOnSlot("Foo") :
       /\ i < j
       /\ IsBareSpread(SpreadOf(i))
       /\ LastOnSlot("Foo") = j
       /\ ~ WrittenBy(j).isMasked
  /\ \A i \in DeclarationsNamed("Foo") : substitutions[i].kind = "__getClassicFragment"

(***************************************************************************)
(* C29.  Field-level validation (validateField and validateConnectionField)*)
(* is skipped for a field exactly when the nearest enclosing fragment, the *)
(* root fragment or an inline fragment, carries @generated.  The exemption *)
(* is handed down through field selections, is recomputed from the inline  *)
(* fragment's own directives at every inline fragment, and a field with no *)
(* fragment between it and an operation's root field is never exempt.      *)
(* Read off the definition: a print ends with a field-level error only at  *)
(* a field that breaks a rule and is not exempt, it raises whenever such a *)
(* field exists, and a rule-breaking field that is printed is exempt.      *)
(***************************************************************************)
FieldErrors ==
  {"MisplacedNodeField", "ConflictingPaginationArguments", "MissingPaginationArgument",
   "UseEdgesNodeInstead"}

\* the fields given below `parent`, each with its parent type and whether the
\* nearest enclosing fragment carries @generated
RECURSIVE FieldsBelow(_, _)
FieldsBelow(parent, exempt) ==
  UNION {CASE parent.selections[k].kind = "Field" ->
                {<<parent.selections[k], parent.type, exempt>>}
                  \cup FieldsBelow(parent.selections[k], exempt)
           [] parent.selections[k].kind = "InlineFragment" ->
                FieldsBelow(parent.selections[k],
                            hasDirective(parent.selections[k], "generated"))
           [] OTHER -> {} :
         k \in 1..Len(parent.selections)}

GivenFields ==
  IF IsOperation THEN FieldsBelow(definition.selections[1], FALSE)
  ELSE FieldsBelow(definition, hasDirective(definition, "generated"))

\* the field breaks a rule of validateField or validateConnectionField
BreaksRule(field, parentType) ==
  \/ validateField(field, parentType) # ""
  \/ /\ isConnection(field.type)
     /\ (hasDeclaredArgument(field, "first") \/ hasDeclaredArgument(field, "last"))
     /\ validateConnectionField(field) # ""

NotExemptOffenders == {t \in GivenFields : ~ t[3] /\ BreaksRule(t[1], t[2])}

ExemptOffenders == {t \in GivenFields : t[3] /\ BreaksRule(t[1], t[2])}

LastCall == result.log[Len(result.log)]

C29_GeneratedExemption ==
  Done =>
    /\ result.err \in FieldErrors =>
         /\ <<LastCall.field, LastCall.parentType, FALSE>> \in NotExemptOffenders
         /\ ~ LastCall.gen
    /\ NotExemptOffenders # {} => Raised(result)
    /\ \A i \in Calls :
         BreaksRule(result.log[i].field, result.log[i].parentType) =>
           <<result.log[i].field, result.log[i].parentType, result.log[i].gen>>
             \in GivenFields
    /\ Succeeded =>
         \A t \in ExemptOffenders :
           \E i \in Calls : result.log[i] = LogEntry(t[1], t[2], TRUE)

\* a @generated fragment, an inline fragment without the directive below it, and
\* a misplaced `node` field below that: the field is validated
C29_Witness ==
  /\ Done
  /\ definition.kind = "Fragment"
  /\ hasDirective(definition, "generated")
  /\ result.err = "MisplacedNodeField"
  /\ ExemptOffenders = {}

\* a query, an inline fragment with @generated below its root field, and a
\* misplaced `node` field below that: the field is not validated
C29_BelowOperation ==
  /\ Succeeded
  /\ definition.kind = "Query"
  /\ ExemptOffenders # {}

\* a fragment without the directive, a @generated inline fragment, a connection
\* field that breaks a connection rule: printed
C29_ConnectionExempt ==
  /\ Succeeded
  /\ definition.kind = "Fragment"
  /\ ~ hasDirective(definition, "generated")
  /\ \E t \in ExemptOffenders : isConnection(t[1].type)

(***************************************************************************)
(* C30.  For a fragment definition the emitted argumentDefinitions list    *)
(* has exactly one entry per name of the variable table, in the table's    *)
(* order, and no other entry: a LocalArgument, with the declared           *)
(* defaultValue or null when none is declared, when the captured           *)
(* @argumentDefinitions defines the name, a RootArgument otherwise.  A     *)
(* name defined in @argumentDefinitions and never referenced as a variable *)
(* has no entry.  (Of two declarations of one name the first counts; a     *)
(* declaration whose value is no object, or whose default is no literal,   *)
(* makes the call raise when the name is referenced.)                      *)
(***************************************************************************)
Emitted == transformedAST.argumentDefinitions

DeclarationsOf(name) ==
  {i \in 1..Len(argumentDefinitions.list) : argumentDefinitions.list[i].name = name}

FirstDeclaration(name) ==
  argumentDefinitions.list[CHOOSE i \in DeclarationsOf(name) :
                             \A j \in DeclarationsOf(name) : i <= j]

DefaultFields(name) ==
  {k \in 1..Len(FirstDeclaration(name).value.fields) :
     FirstDeclaration(name).value.fields[k].name = "defaultValue"}

\* the literal a declared default is emitted as
DeclaredDefault(name) ==
  IF DefaultFields(name) = {} THEN NullLiteral
  ELSE LET field == FirstDeclaration(name).value.fields[
                      CHOOSE k \in DefaultFields(name) : \A j \in DefaultFields(name) : k <= j]
       IN [kind |-> "Literal", of |-> field.value.kind, value |-> field.value.value]

\* a referenced name whose declaration createFragmentArguments cannot read
Unreadable(name) ==
  /\ DeclarationsOf(name) # {}
  /\ \/ FirstDeclaration(name).value.kind # "ObjectValue"
     \/ /\ DefaultFields(name) # {}
        /\ DeclaredDefault(name).of \in {"Variable", "ObjectValue", "NullValue"}

C30_FragmentArguments ==
  /\ (phase = "assembled" /\ document.kind = "FragmentDefinition") =>
       /\ Len(Emitted) = Len(variables)
       /\ \A i \in 1..Len(variables) :
            IF DeclarationsOf(variables[i]) # {}
            THEN Emitted[i] = [defaultValue |-> DeclaredDefault(variables[i]),
                               kind |-> "LocalArgument", name |-> variables[i]]
            ELSE Emitted[i] = [kind |-> "RootArgument", name |-> variables[i]]
       /\ \A i \in 1..Len(argumentDefinitions.list) :
            ~ Contains(variables, argumentDefinitions.list[i].name) =>
              \A k \in 1..Len(Emitted) : Emitted[k].name # argumentDefinitions.list[i].name
       /\ \A i \in 1..Len(variables) : ~ Unreadable(variables[i])
  /\ (phase = "raised" /\ classicAST # NoDocument
        /\ failure \in {"TypeError", "UnsupportedLiteral"}) =>
       /\ document.kind = "FragmentDefinition"
       /\ \E i \in 1..Len(variables) : Unreadable(variables[i])
       /\ transformedAST = NoObject

\* size is declared with a default and referenced, cursor is declared and not
\* referenced, other is referenced and not declared
C30_Witness ==
  /\ phase = "assembled"
  /\ document.kind = "FragmentDefinition"
  /\ DeclarationsOf("cursor") # {}
  /\ ~ Contains(variables, "cursor")
  /\ \E i, j \in 1..Len(Emitted) :
       /\ Emitted[i] = [defaultValue |-> [kind |-> "Literal", of |-> "IntValue", value |-> "10"],
                        kind |-> "LocalArgument", name |-> "size"]
       /\ Emitted[j] = [kind |-> "RootArgument", name |-> "other"]

\* cursor is declared without a default and referenced: defaultValue is null
C30_NullDefault ==
  /\ phase = "assembled"
  /\ document.kind = "FragmentDefinition"
  /\ \E i \in 1..Len(Emitted) :
       Emitted[i] = [defaultValue |-> NullLiteral, kind |-> "LocalArgument", name |-> "cursor"]

\* `size: 10` in @argumentDefinitions and $size referenced: the call raises
C30_Unreadable ==
  /\ phase = "raised"
  /\ classicAST # NoDocument
  /\ failure = "TypeError"
  /\ Contains(variables, "size")

(***************************************************************************)
(* C26.  The function createModernNode generates contains the hash         *)
(* staleness check (the required artifact's hash compared with the hash of *)
(* the printed definition, and a warning naming the build command,         *)
(* `relay-compiler` by default) exactly when isDevelopment is set or       *)
(* isDevVariable is non-null; when isDevVariable is non-null the whole     *)
(* check is guarded by that variable; with neither option the body is only *)
(* the lazy require of the artifact; a definition without a name raises    *)
(* and yields no node.                                                     *)
(***************************************************************************)
ArtifactOf(def) ==
  IF modernOpts.artifactDirectory = <<"artifacts">>
  THEN "artifacts/" \o def.name \o ".graphql.ts"
  ELSE "./__generated__/" \o def.name \o ".graphql.ts"

IsLazyRequire(statement) ==
  /\ statement.stmt = "return"
  /\ statement.value = <<"require", ArtifactOf(graphqlDefinition), "default">>

ExpectedCommand ==
  IF modernOpts.buildCommand = <<"relay-build">> THEN "relay-build" ELSE "relay-compiler"

\* const node = <artifact>; if (node.hash && node.hash !== <hash>) warn
IsHashCheck(statements) ==
  /\ Len(statements) = 2
  /\ statements[1].stmt = "const node"
  /\ statements[1].value = <<"require", ArtifactOf(graphqlDefinition), "default">>
  /\ statements[2].stmt = "if"
  /\ statements[2].test
       = <<"node.hash", "&&", "node.hash", "!==", md5(printDefinition(graphqlDefinition))>>
  /\ Len(statements[2].body) = 1
  /\ statements[2].body[1].stmt = "expression"
  /\ statements[2].body[1].value[1] = "console.error"
  /\ statements[2].body[1].value[3] = graphqlDefinition.name
  /\ statements[2].body[1].value[5] = ExpectedCommand

C26_HashCheck ==
  /\ modernNode.state \in {"function", "raised"} =>
       (modernNode.state = "raised" <=> graphqlDefinition.name = "")
  /\ modernNode.state = "raised" =>
       /\ modernNode.error = "MissingDefinitionName"
       /\ modernNode.body = <<>>
  /\ modernNode.state = "function" =>
       /\ IsLazyRequire(modernNode.body[Len(modernNode.body)])
       /\ (~ modernOpts.isDevelopment /\ modernOpts.isDevVariable = <<>>) =>
            Len(modernNode.body) = 1
       /\ (modernOpts.isDevelopment /\ modernOpts.isDevVariable = <<>>) =>
            /\ Len(modernNode.body) = 3
            /\ IsHashCheck(SubSeq(modernNode.body, 1, 2))
       /\ modernOpts.isDevVariable # <<>> =>
            /\ Len(modernNode.body) = 2
            /\ modernNode.body[1].stmt = "if"
            /\ modernNode.body[1].test = modernOpts.isDevVariable
            /\ IsHashCheck(modernNode.body[1].body)

\* isDevVariable: 'IS_DEV' alone: the check, inside if (IS_DEV), with the default command
C26_Witness ==
  /\ modernNode.state = "function"
  /\ ~ modernOpts.isDevelopment
  /\ modernOpts.isDevVariable = <<"IS_DEV">>
  /\ modernOpts.buildCommand = <<>>
  /\ modernNode.body[1].test = <<"IS_DEV">>
  /\ modernNode.body[1].body[2].body[1].value[5] = "relay-compiler"

\* no option: only the lazy require
C26_LazyOnly ==
  /\ modernNode.state = "function"
  /\ Len(modernNode.body) = 1

\* isDevelopment with buildCommand: 'relay-build'
C26_BuildCommand ==
  /\ modernNode.state = "function"
  /\ Len(modernNode.body) = 3
  /\ modernNode.body[2].body[1].value[5] = "relay-build"

\* a definition without a name
C26_Unnamed == modernNode.state = "raised"

====
